---- MODULE Spec2Model ----
(***************************************************************************)
(* ShelfSense recommendation pipeline: the orchestrator                    *)
(* getRecommendationsForUser, the Gemini model client                      *)
(* (initializeGemini / getBookRecommendations), the Google Books adapter   *)
(* (searchBooks / enrichRecommendations).                                  *)
(*                                                                         *)
(* Spec follows requests of getRecommendationsForUser; SpecLong the runs   *)
(* with a long model answer; SpecShelf the profile analysis over category  *)
(* lists; SpecParser one call of parseRecommendationsResponse on a text;   *)
(* SpecUpsert concurrent calls of Book.addToUserLibrary; SpecEnrich one    *)
(* call of enrichRecommendations with the order in which its lookups       *)
(* complete; SpecLibrary the writes to a library and the profile read      *)
(* from it; SpecAggregates the author and page aggregates; SpecLive the    *)
(* orchestrator with fair steps; SpecClient interleaved calls on the       *)
(* lazily initialised model client.                                        *)
(*                                                                         *)
(* Conventions: a JavaScript null/undefined/'' string is "", a null or     *)
(* empty array is <<>>, a null number is Null.  Ratings are whole stars    *)
(* and avgRating is kept in tenths, so toFixed(1) is exact on the inputs   *)
(* of the model.  A prompt is the record of the values interpolated into   *)
(* the fixed template.                                                     *)
(***************************************************************************)
EXTENDS Integers, Sequences, FiniteSets, TLC

\* ------------------------------------------------------------------ bounds
MaxBooks == 3
MaxRecs == 3
MaxItems == 2
MaxLong == 11
MaxShelf == 6
MaxElems == 2
MaxCallers == 2
MaxClock == 5
MaxRows == 4

\* ------------------------------------------------------- program constants
MinBooks == 3
TopN == 3
RecentN == 3
FallbackMaxResults == 10
EnrichMaxResults == 1
Null == -1

MsgInsufficient == "Add at least 3 books to get personalized recommendations"
MsgFailed_Empty == ""
MsgFailed == "Unable to generate recommendations at this time. Please try again later."
MsgError == "An error occurred while generating recommendations. Please try again later."
DefaultReason == "Recommended based on your reading history"
GenericFallbackReason == "Highly rated book that many readers enjoy"
DefaultGenre == "General"
DefaultQuery == <<"bestseller books highly rated">>
QuerySuffix == " books highly rated"
UnknownTitle == "Unknown Title"

\* ------------------------------------------------------------ input sets
\* Rows as UserBook.getUserBooks returns them (user_libraries JOIN books).
LibraryRows ==
  { [title |-> "The Hobbit", authors |-> <<"Tolkien">>, categories |-> <<"Fantasy">>,
     page_count |-> 310, average_rating |-> 4],
    [title |-> "The Silmarillion", authors |-> <<"Tolkien">>, categories |-> <<"Fantasy">>,
     page_count |-> 365, average_rating |-> 3],
    [title |-> "Foundation", authors |-> <<"Asimov">>, categories |-> <<"SciFi", "Fantasy">>,
     page_count |-> Null, average_rating |-> 5],
    [title |-> "Untagged", authors |-> <<>>, categories |-> <<>>,
     page_count |-> 125, average_rating |-> Null] }

\* Rows of books that carry no category: a library made of them has no genre.
UntaggedRows ==
  { [title |-> "Untagged", authors |-> <<>>, categories |-> <<>>,
     page_count |-> 125, average_rating |-> Null],
    [title |-> "Pamphlet", authors |-> <<"Anon">>, categories |-> <<>>,
     page_count |-> Null, average_rating |-> 2],
    [title |-> "Zine", authors |-> <<>>, categories |-> <<>>,
     page_count |-> 40, average_rating |-> Null] }

\* Failures of the library read (pg errors surfaced by query()).
DbErrors == {"connection terminated", "statement timeout"}

\* Elements a model may put in its JSON array.
ModelElems ==
  { [title |-> "Dune", author |-> "Herbert", genre |-> "SciFi", reason |-> "You liked Foundation"],
    [title |-> "Eragon", author |-> "Paolini", genre |-> "", reason |-> "Dragons like The Hobbit"],
    [title |-> "Nameless", author |-> "Anon", genre |-> "Mystery", reason |-> ""] }

\* Volumes the catalog may answer with: one with every field, one with none.
CatalogItems ==
  { [id |-> "vol-full", title |-> "Catalog Title", categories |-> <<"Fiction">>],
    [id |-> "", title |-> "", categories |-> <<>>] }

RECURSIVE SeqsUpTo(_, _)
SeqsUpTo(S, n) ==
  IF n = 0 THEN {<<>>}
  ELSE LET shorter == SeqsUpTo(S, n - 1)
       IN  shorter \cup {Append(s, x) : s \in {t \in shorter : Len(t) = n - 1}, x \in S}

\* the order in which the books were put on the shelf
ShelfOrder ==
  <<"The Hobbit", "The Silmarillion", "Foundation", "Untagged", "Pamphlet", "Zine">>

PlaceOnShelf(row) == CHOOSE k \in 1..Len(ShelfOrder) : ShelfOrder[k] = row.title

\* The libraries a user can have: distinct rows, at most MaxBooks of them, as
\* getUserBooks lists them: newest first or oldest first (the order of the
\* rows after status updates is followed in SpecLibrary).
Libraries ==
  {l \in SeqsUpTo(LibraryRows, MaxBooks) \cup SeqsUpTo(UntaggedRows, MaxBooks) :
     \/ \A i, j \in 1..Len(l) : i < j => PlaceOnShelf(l[i]) < PlaceOnShelf(l[j])
     \/ \A i, j \in 1..Len(l) : i < j => PlaceOnShelf(l[i]) > PlaceOnShelf(l[j])}

\* What generateContent(prompt) + response.text() can do: throw, or give a
\* text that lines 151-166 turn into no JSON value (garbage), into a value
\* that is no array (object), or into an array.  ParseText below does these
\* lines on the text itself.
ModelResponses ==
  {[kind |-> "throw"], [kind |-> "garbage"], [kind |-> "object"]}
    \cup {[kind |-> "array", elems |-> a] : a \in SeqsUpTo(ModelElems, MaxRecs)}

\* What axios.get can do for one catalog request.
CatalogResponses(maxResults) ==
  {[kind |-> "timeout"], [kind |-> "401"], [kind |-> "429"], [kind |-> "network"],
   [kind |-> "noitems"]}
    \cup {[kind |-> "items", items |-> s] :
            s \in {t \in SeqsUpTo(CatalogItems, MaxItems) : Len(t) <= maxResults}}

\* ------------------------------------------------------- sequence helpers
RECURSIVE SelectIdx(_, _, _)
\* the indices i >= from of f (in order) with f[i] a non-null entry
SelectIdx(f, from, n) ==
  IF from > n THEN <<>>
  ELSE IF f[from].state = "book" THEN <<from>> \o SelectIdx(f, from + 1, n)
       ELSE SelectIdx(f, from + 1, n)

RECURSIVE Flatten(_)
Flatten(ss) == IF ss = <<>> THEN <<>> ELSE Head(ss) \o Flatten(Tail(ss))

RECURSIVE FirstSeen(_)
\* keys of a JS object in insertion order: each value once, at its first place
FirstSeen(s) ==
  IF s = <<>> THEN <<>>
  ELSE LET init == FirstSeen(SubSeq(s, 1, Len(s) - 1))
           x == s[Len(s)]
       IN  IF \E i \in 1..Len(init) : init[i] = x THEN init ELSE Append(init, x)

Count(s, x) == Cardinality({i \in 1..Len(s) : s[i] = x})

RECURSIVE InsertDesc_TiesReversed(_, _, _)
InsertDesc_TiesReversed(sorted, x, cnt) ==
  IF sorted = <<>> THEN <<x>>
  ELSE IF cnt[Head(sorted)] > cnt[x]
       THEN <<Head(sorted)>> \o InsertDesc_TiesReversed(Tail(sorted), x, cnt)
       ELSE <<x>> \o sorted

RECURSIVE InsertDesc(_, _, _)
\* insert x after every element whose count is >= its own (stable)
InsertDesc(sorted, x, cnt) ==
  IF sorted = <<>> THEN <<x>>
  ELSE IF cnt[Head(sorted)] >= cnt[x] THEN <<Head(sorted)>> \o InsertDesc(Tail(sorted), x, cnt)
       ELSE <<x>> \o sorted

RECURSIVE StableSortDesc(_, _)
StableSortDesc(keys, cnt) ==
  IF keys = <<>> THEN <<>>
  ELSE InsertDesc(StableSortDesc(SubSeq(keys, 1, Len(keys) - 1), cnt), keys[Len(keys)], cnt)

Take(s, n) == SubSeq(s, 1, IF Len(s) < n THEN Len(s) ELSE n)

RECURSIVE SumOf(_)
SumOf(s) == IF s = <<>> THEN 0 ELSE Head(s) + SumOf(Tail(s))

OrZero(x) == IF x = Null THEN 0 ELSE x

\* Math.round(a / b) for a >= 0, b > 0
RoundDiv(a, b) == (2 * a + b) \div (2 * b)

\* ---------------------------------------------------------- taste profile
TopGenres(userBooks) ==
  LET all == Flatten([i \in 1..Len(userBooks) |-> userBooks[i].categories])
      keys == FirstSeen(all)
      genreCounts == [g \in {keys[i] : i \in 1..Len(keys)} |-> Count(all, g)]
  IN  Take(StableSortDesc(keys, genreCounts), TopN)

FavoriteAuthors(userBooks) ==
  LET all == Flatten([i \in 1..Len(userBooks) |-> userBooks[i].authors])
  IN  SelectSeq(FirstSeen(all), LAMBDA a : Count(all, a) > 1)

AvgPageCount_SkipMissing(userBooks) ==
  LET present == SelectSeq(userBooks, LAMBDA b : b.page_count # Null)
      totalPages == SumOf([i \in 1..Len(present) |-> present[i].page_count])
  IN  IF present = <<>> THEN 0 ELSE RoundDiv(totalPages, Len(present))

\* lines 470-472: Math.round(totalPages / userBooks.length)
AvgPageCount(userBooks) ==
  LET totalPages == SumOf([i \in 1..Len(userBooks) |-> OrZero(userBooks[i].page_count)])
  IN  RoundDiv(totalPages, Len(userBooks))

\* in tenths: parseFloat((totalRating / n).toFixed(1))
AvgRating(userBooks) ==
  LET totalRating == SumOf([i \in 1..Len(userBooks) |-> OrZero(userBooks[i].average_rating)])
  IN  RoundDiv(10 * totalRating, Len(userBooks))

RecentBooks(userBooks) ==
  LET first == Take(userBooks, RecentN)
  IN  [i \in 1..Len(first) |->
         [title |-> first[i].title,
          author |-> IF first[i].authors = <<>> THEN "Unknown" ELSE first[i].authors[1],
          genre |-> IF first[i].categories = <<>> THEN "Unknown" ELSE first[i].categories[1]]]

BuildProfile(userBooks) ==
  [totalBooks |-> Len(userBooks),
   topGenres |-> TopGenres(userBooks),
   favoriteAuthors |-> FavoriteAuthors(userBooks),
   recentBooks |-> RecentBooks(userBooks),
   avgPageCount |-> AvgPageCount(userBooks),
   avgRating |-> AvgRating(userBooks)]

\* ------------------------------------------------------------ model client
\* the values the template interpolates
buildRecommendationPrompt(profile) ==
  [totalBooks |-> profile.totalBooks,
   avgRating |-> profile.avgRating,
   genresText |-> IF profile.topGenres = <<>> THEN <<"Various">> ELSE profile.topGenres,
   authorsText |-> IF profile.favoriteAuthors = <<>> THEN <<"Various">> ELSE profile.favoriteAuthors,
   recentBooksText |-> IF profile.recentBooks = <<>>
                       THEN <<[title |-> "No recent books recorded", author |-> "", genre |-> ""]>>
                       ELSE profile.recentBooks]

parseRecommendationsResponse_NoFilter(resp) ==
  IF resp.kind # "array" \/ resp.elems = <<>> THEN [ok |-> FALSE, recs |-> <<>>]
  ELSE [ok |-> TRUE,
        recs |-> [i \in 1..Len(resp.elems) |->
                    [title |-> resp.elems[i].title,
                     author |-> resp.elems[i].author,
                     genre |-> IF resp.elems[i].genre = "" THEN DefaultGenre
                               ELSE resp.elems[i].genre,
                     reason |-> resp.elems[i].reason]]]

\* [ok |-> FALSE] stands for the Error thrown at line 191
parseRecommendationsResponse(resp) ==
  IF resp.kind # "array" THEN [ok |-> FALSE, recs |-> <<>>]
  ELSE LET valid == SelectSeq(resp.elems,
                      LAMBDA rec : rec.title # "" /\ rec.author # "" /\ rec.reason # "")
       IN  IF valid = <<>> THEN [ok |-> FALSE, recs |-> <<>>]
           ELSE [ok |-> TRUE,
                 recs |-> [i \in 1..Len(valid) |->
                             [title |-> valid[i].title,
                              author |-> valid[i].author,
                              genre |-> IF valid[i].genre = "" THEN DefaultGenre ELSE valid[i].genre,
                              reason |-> valid[i].reason]]]

\* ---------------------------------------------- the parser on response text
\* A response text is a sequence of lexemes.  Fence is a run of three
\* backticks, "json" the word after it, "<nl>" and "<sp>" white space, "Here"
\* and the like words of prose, "null" the JSON literal.  The text of a JSON object
\* that holds the fields of a candidate is one lexeme, ObjText(e): it has no
\* bracket and no backtick in it.  KeyText is a JSON string used as a key.
Fence == "<fence>"
JsonWord == "json"
NL == "<nl>"
SP == "<sp>"
KeyText == "\"recommendations\""
WhiteSpace == {NL, SP}

ObjText(e) == "{" \o e.title \o "}"
ObjTexts == {ObjText(e) : e \in ModelElems}
ElemOfText(t) == CHOOSE e \in ModelElems : ObjText(e) = t

\* String.prototype.trim
RECURSIVE TrimLeft(_)
TrimLeft(t) == IF t # <<>> /\ Head(t) \in WhiteSpace THEN TrimLeft(Tail(t)) ELSE t

RECURSIVE TrimRight(_)
TrimRight(t) ==
  IF t # <<>> /\ t[Len(t)] \in WhiteSpace THEN TrimRight(SubSeq(t, 1, Len(t) - 1)) ELSE t

Trim(t) == TrimRight(TrimLeft(t))

\* line 155: every fence followed by json, and a newline after it if any, is removed
RECURSIVE ReplaceJsonFence(_)
ReplaceJsonFence(t) ==
  IF t = <<>> THEN <<>>
  ELSE IF Len(t) >= 2 /\ t[1] = Fence /\ t[2] = JsonWord
       THEN IF Len(t) >= 3 /\ t[3] = NL THEN ReplaceJsonFence(SubSeq(t, 4, Len(t)))
            ELSE ReplaceJsonFence(SubSeq(t, 3, Len(t)))
       ELSE <<Head(t)>> \o ReplaceJsonFence(Tail(t))

\* line 156: every fence left, and a newline after it if any, is removed
RECURSIVE ReplaceFence(_)
ReplaceFence(t) ==
  IF t = <<>> THEN <<>>
  ELSE IF t[1] = Fence
       THEN IF Len(t) >= 2 /\ t[2] = NL THEN ReplaceFence(SubSeq(t, 3, Len(t)))
            ELSE ReplaceFence(Tail(t))
       ELSE <<Head(t)>> \o ReplaceFence(Tail(t))

\* lines 151-157
StripFences(responseText) == Trim(ReplaceFence(ReplaceJsonFence(Trim(responseText))))

jsonArrayMatch_None(cleanedText) == [found |-> FALSE, text |-> <<>>]

\* line 160: match(/\[[\s\S]*\]/): from the first "[" to the last "]" after it
jsonArrayMatch(cleanedText) ==
  LET opens == {i \in 1..Len(cleanedText) : cleanedText[i] = "["}
      first == CHOOSE i \in opens : \A j \in opens : i <= j
      closes == {i \in 1..Len(cleanedText) : cleanedText[i] = "]" /\ i > first}
      last == CHOOSE i \in closes : \A j \in closes : j <= i
  IN  IF opens = {} \/ closes = {} THEN [found |-> FALSE, text |-> <<>>]
      ELSE [found |-> TRUE, text |-> SubSeq(cleanedText, first, last)]

\* lines 160-163
ExtractArray(cleanedText) ==
  IF jsonArrayMatch(cleanedText).found THEN jsonArrayMatch(cleanedText).text ELSE cleanedText

\* JSON.parse (line 166) on the lexemes: a value is an array of values, a
\* candidate object, an object with one key, or null; white space may stand
\* between lexemes; anything else is a SyntaxError.
NoValue == [ok |-> FALSE, next |-> 0, val |-> [type |-> "none"]]

RECURSIVE ParseValue(_, _)
RECURSIVE ParseItems(_, _, _)
ParseValue(t, i) ==
  IF i > Len(t) THEN NoValue
  ELSE IF t[i] \in ObjTexts
       THEN [ok |-> TRUE, next |-> i + 1, val |-> [type |-> "elem", elem |-> ElemOfText(t[i])]]
  ELSE IF t[i] = "null" THEN [ok |-> TRUE, next |-> i + 1, val |-> [type |-> "null"]]
  ELSE IF t[i] = "["
       THEN IF i + 1 <= Len(t) /\ t[i + 1] = "]"
            THEN [ok |-> TRUE, next |-> i + 2, val |-> [type |-> "array", items |-> <<>>]]
            ELSE ParseItems(t, i + 1, <<>>)
  ELSE IF t[i] = "{"
       THEN IF i + 2 <= Len(t) /\ t[i + 1] = KeyText /\ t[i + 2] = ":"
            THEN LET v == ParseValue(t, i + 3)
                 IN  IF v.ok /\ v.next <= Len(t) /\ t[v.next] = "}"
                     THEN [ok |-> TRUE, next |-> v.next + 1, val |-> [type |-> "object"]]
                     ELSE NoValue
            ELSE NoValue
  ELSE NoValue

ParseItems(t, i, acc) ==
  LET v == ParseValue(t, i)
  IN  IF ~v.ok \/ v.next > Len(t) THEN NoValue
      ELSE IF t[v.next] = ","  THEN ParseItems(t, v.next + 1, Append(acc, v.val))
      ELSE IF t[v.next] = "]"
           THEN [ok |-> TRUE, next |-> v.next + 1,
                 val |-> [type |-> "array", items |-> Append(acc, v.val)]]
      ELSE NoValue

JSONparse(text) ==
  LET t == SelectSeq(text, LAMBDA c : c \notin WhiteSpace)
      v == ParseValue(t, 1)
  IN  IF v.ok /\ v.next = Len(t) + 1 THEN [ok |-> TRUE, val |-> v.val]
      ELSE [ok |-> FALSE, val |-> [type |-> "none"]]

\* an array or an object with one key has none of the candidate fields
NoFields == [title |-> "", author |-> "", genre |-> "", reason |-> ""]
FieldsOf(item) == IF item.type = "elem" THEN item.elem ELSE NoFields

Validate_ObjectAsList(recommendations) ==
  IF recommendations.type = "elem"
  THEN parseRecommendationsResponse([kind |-> "array", elems |-> <<recommendations.elem>>])
  ELSE [ok |-> FALSE, recs |-> <<>>]

\* lines 168-187 on the parsed value: the Array.isArray test, the filter
\* (reading .title of null is a TypeError), the map
Validate(recommendations) ==
  IF recommendations.type # "array" THEN [ok |-> FALSE, recs |-> <<>>]
  ELSE IF \E i \in 1..Len(recommendations.items) : recommendations.items[i].type = "null"
       THEN [ok |-> FALSE, recs |-> <<>>]
  ELSE parseRecommendationsResponse(
         [kind |-> "array",
          elems |-> [i \in 1..Len(recommendations.items) |-> FieldsOf(recommendations.items[i])]])

\* parseRecommendationsResponse on a text, lines 148-193
ParseText(responseText) ==
  LET parsed == JSONparse(ExtractArray(StripFences(responseText)))
  IN  IF parsed.ok THEN Validate(parsed.val) ELSE [ok |-> FALSE, recs |-> <<>>]

\* One attempt of a model tier: generateContent, response.text(), parse.
ModelAttempt(resp) ==
  IF resp.kind = "throw" THEN [ok |-> FALSE, recs |-> <<>>]
  ELSE parseRecommendationsResponse(resp)

\* How an attempt ended: the request threw (catch at 258 / 278), the text was
\* not a JSON array (lines 166-171), no element passed the filter (178-180).
AttemptEnd(resp) ==
  IF resp.kind = "throw" THEN "request"
  ELSE IF resp.kind # "array" THEN "not-array"
  ELSE IF parseRecommendationsResponse(resp).ok THEN "ok" ELSE "no-valid"

\* initializeGemini under each way it can end: the handles it leaves set and
\* whether it throws.
InitOutcomes == {"ok", "ctor-throws", "primary-throws", "fallback-throws"}

initializeGemini(key, outcome, old) ==
  IF ~key THEN [threw |-> TRUE, genAI |-> old.genAI, primaryModel |-> old.primaryModel,
                fallbackModel |-> old.fallbackModel]
  ELSE IF outcome = "ctor-throws"
       THEN [threw |-> TRUE, genAI |-> old.genAI, primaryModel |-> old.primaryModel,
             fallbackModel |-> old.fallbackModel]
  ELSE IF outcome = "primary-throws"
       THEN [threw |-> TRUE, genAI |-> TRUE, primaryModel |-> old.primaryModel,
             fallbackModel |-> old.fallbackModel]
  ELSE IF outcome = "fallback-throws"
       THEN [threw |-> TRUE, genAI |-> TRUE, primaryModel |-> TRUE,
             fallbackModel |-> old.fallbackModel]
  ELSE [threw |-> FALSE, genAI |-> TRUE, primaryModel |-> TRUE, fallbackModel |-> TRUE]

\* --------------------------------------------------------- catalog adapter
FormatBook(item) ==
  [googleBooksId |-> item.id,
   title |-> IF item.title = "" THEN UnknownTitle ELSE item.title,
   categories |-> item.categories]

\* the try block of searchBooks
SearchBooksTry(resp) ==
  IF resp.kind \in {"timeout", "401", "429", "network"}
  THEN [threw |-> TRUE, value |-> <<>>]
  ELSE IF resp.kind = "noitems" \/ resp.items = <<>>
       THEN [threw |-> FALSE, value |-> <<>>]
       ELSE [threw |-> FALSE,
             value |-> [i \in 1..Len(resp.items) |-> FormatBook(resp.items[i])]]

SearchBooksCatch_Rethrows429(resp) ==
  IF resp.kind = "429" THEN [threw |-> TRUE, value |-> <<>>]
  ELSE [threw |-> FALSE, value |-> <<>>]

\* the catch block of searchBooks: log by category, return []
SearchBooksCatch(resp) == [threw |-> FALSE, value |-> <<>>]

searchBooks(resp) ==
  LET body == SearchBooksTry(resp)
  IN  IF body.threw THEN SearchBooksCatch(resp) ELSE body

\* one element of bookPromises: the async closure of enrichRecommendations;
\* threw: its searchBooks call raised into the closure's catch; hits: the
\* number of results that call returned
EnrichOne(resp) ==
  LET results == searchBooks(resp)
  IN  IF results.threw THEN [state |-> "null", book |-> <<>>, threw |-> TRUE, hits |-> 0]
      ELSE IF Len(results.value) > 0
           THEN [state |-> "book", book |-> results.value[1], threw |-> FALSE,
                 hits |-> Len(results.value)]
           ELSE [state |-> "null", book |-> <<>>, threw |-> FALSE, hits |-> 0]

\* the indices of bookPromises in the order in which their requests completed
VARIABLE completed

EnrichedBooks_CompletionOrder(results) ==
  LET done == SelectSeq(completed, LAMBDA i : results[i].state = "book")
  IN  [j \in 1..Len(done) |-> results[done[j]].book]

EnrichedBooks_AbortOnNull(results) ==
  IF \E i \in 1..Len(results) : results[i].state = "null" THEN <<>>
  ELSE [j \in 1..Len(results) |-> results[j].book]

\* after Promise.all: the non-null results, in the order of the titles
EnrichedBooks(results) ==
  LET idx == SelectIdx(results, 1, Len(results))
  IN  [j \in 1..Len(idx) |-> results[idx[j]].book]

\* -------------------------------------------------- steps of the handlers
ErrorResult_NoSource(errorMessage) ==
  [recommendations |-> <<>>,
   message |-> MsgError,
   error |-> errorMessage]

\* getRecommendationsForUser, the outermost catch (lines 588-599)
ErrorResult(errorMessage) ==
  [recommendations |-> <<>>,
   message |-> MsgError,
   error |-> errorMessage,
   source |-> "Error"]

OrchestratorCatch_Rethrows(errorMessage) == [threw |-> TRUE, value |-> <<>>]

\* the outermost catch returns instead of throwing
OrchestratorCatch(errorMessage) == [threw |-> FALSE, value |-> ErrorResult(errorMessage)]

\* getRecommendationsForUser, step 2 (lines 419-428)
InsufficientResult(userBooks) ==
  [recommendations |-> <<>>,
   message |-> MsgInsufficient,
   userProfile |-> [totalBooks |-> Len(userBooks)]]

Gate_OffByOne(userBooks) == Len(userBooks) < MinBooks - 1

Gate(userBooks) == Len(userBooks) < MinBooks

\* getBookRecommendations up to its first await (lines 235-248): lazy
\* initialization, the prompt, the primary request.
NeedsInit_ClientOnly(h) == ~h.genAI

\* the guard of lines 236 and 342
NeedsInit(h) == ~h.genAI \/ ~h.primaryModel \/ ~h.fallbackModel

ClientEntry(h, key, initOutcome, profile) ==
  LET init == IF NeedsInit(h) THEN initializeGemini(key, initOutcome, h)
              ELSE [threw |-> FALSE, genAI |-> h.genAI, primaryModel |-> h.primaryModel,
                    fallbackModel |-> h.fallbackModel]
      p == buildRecommendationPrompt(profile)
  IN  [threw |-> init.threw,
       handles |-> [genAI |-> init.genAI, primaryModel |-> init.primaryModel,
                    fallbackModel |-> init.fallbackModel],
       prompt |-> IF init.threw THEN <<>> ELSE p,
       issued |-> IF init.threw THEN <<>> ELSE <<[op |-> "primary", arg |-> p]>>]

AfterPrimary_RetriesPrimary(attempt, p) ==
  IF attempt.ok THEN [next |-> "return", recs |-> attempt.recs, issued |-> <<>>]
  ELSE [next |-> "fallback", recs |-> <<>>,
        issued |-> <<[op |-> "primary", arg |-> p], [op |-> "fallback", arg |-> p]>>]

AfterPrimary_AlwaysFallback(attempt, p) ==
  [next |-> "fallback", recs |-> <<>>, issued |-> <<[op |-> "fallback", arg |-> p]>>]

\* getBookRecommendations after the primary attempt (lines 255-265)
AfterPrimary(attempt, p) ==
  IF attempt.ok THEN [next |-> "return", recs |-> attempt.recs, issued |-> <<>>]
  ELSE [next |-> "fallback", recs |-> <<>>, issued |-> <<[op |-> "fallback", arg |-> p]>>]

AfterFallback_Rethrows(attempt) ==
  IF attempt.ok THEN [threw |-> FALSE, recs |-> attempt.recs]
  ELSE [threw |-> TRUE, recs |-> <<>>]

\* getBookRecommendations after the fallback attempt (lines 272-286)
AfterFallback(attempt) ==
  IF attempt.ok THEN [threw |-> FALSE, recs |-> attempt.recs]
  ELSE [threw |-> FALSE, recs |-> <<>>]

HasRecs_Never(recs) == FALSE

HasRecs_AtLeastTwo(recs) == Len(recs) > 1

\* getRecommendationsForUser, the test at line 510
HasRecs(recs) == Len(recs) > 0

\* the requests enrichRecommendations issues before its first await
EnrichRequests(recs) ==
  [i \in 1..Len(recs) |->
     [op |-> "searchBooks", arg |-> [query |-> <<recs[i].title>>, maxResults |-> EnrichMaxResults]]]

AIResult_NoMerge(enriched, recs, profile) ==
  [recommendations |->
     [index \in 1..Len(enriched) |->
        [googleBooksId |-> enriched[index].googleBooksId,
         title |-> enriched[index].title,
         categories |-> enriched[index].categories,
         reason |-> DefaultReason,
         genre |-> IF enriched[index].categories # <<>>
                   THEN enriched[index].categories[1] ELSE DefaultGenre]],
   userProfile |-> profile,
   source |-> "AI-powered"]

\* getRecommendationsForUser, the merge (lines 527-539)
AIResult(enriched, recs, profile) ==
  [recommendations |->
     [index \in 1..Len(enriched) |->
        [googleBooksId |-> enriched[index].googleBooksId,
         title |-> enriched[index].title,
         categories |-> enriched[index].categories,
         reason |-> IF index <= Len(recs) /\ recs[index].reason # ""
                    THEN recs[index].reason ELSE DefaultReason,
         genre |-> IF index <= Len(recs) /\ recs[index].genre # ""
                   THEN recs[index].genre
                   ELSE IF enriched[index].categories # <<>>
                        THEN enriched[index].categories[1] ELSE DefaultGenre]],
   userProfile |-> profile,
   source |-> "AI-powered"]

FallbackQuery_AlwaysDefault(topGenres) == DefaultQuery

\* getRecommendationsForUser, lines 553-555
FallbackQuery(topGenres) ==
  IF Len(topGenres) > 0 THEN <<topGenres[1], QuerySuffix>> ELSE DefaultQuery

GenreResult_NoProfileOnFailure(fallbackBooks, topGenres, profile) ==
  IF Len(fallbackBooks) > 0
  THEN [recommendations |->
          [i \in 1..Len(fallbackBooks) |->
             [googleBooksId |-> fallbackBooks[i].googleBooksId,
              title |-> fallbackBooks[i].title,
              categories |-> fallbackBooks[i].categories,
              reason |-> <<GenericFallbackReason>>,
              genre |-> DefaultGenre]],
        userProfile |-> profile,
        source |-> "Genre-based"]
  ELSE [recommendations |-> <<>>,
        message |-> MsgFailed,
        source |-> "Failed"]

\* getRecommendationsForUser, lines 561-585
GenreResult(fallbackBooks, topGenres, profile) ==
  IF Len(fallbackBooks) > 0
  THEN [recommendations |->
          [i \in 1..Len(fallbackBooks) |->
             [googleBooksId |-> fallbackBooks[i].googleBooksId,
              title |-> fallbackBooks[i].title,
              categories |-> fallbackBooks[i].categories,
              reason |-> IF Len(topGenres) > 0
                         THEN <<"Popular ", topGenres[1], " book that readers love">>
                         ELSE <<GenericFallbackReason>>,
              genre |-> IF fallbackBooks[i].categories # <<>> THEN fallbackBooks[i].categories[1]
                        ELSE IF Len(topGenres) > 0 THEN topGenres[1] ELSE DefaultGenre]],
        userProfile |-> profile,
        source |-> "Genre-based"]
  ELSE [recommendations |-> <<>>,
        message |-> MsgFailed,
        userProfile |-> profile,
        source |-> "Failed"]

\* ------------------------------------------------------------------ state
VARIABLES
  apiKey,          \* process.env.GEMINI_API_KEY is set
  genAI,           \* module-level handles of geminiService.js (TRUE: non-null)
  primaryModel,
  fallbackModel,
  library,         \* the user's rows, in the order getUserBooks returns them
  pc,              \* where the run of getRecommendationsForUser stands
  loaded,          \* how getUserBooks ended: "none", "rows", "rejected"
  userBooks,
  userProfile,
  prompt,
  geminiRecs,
  attempts,        \* the model attempts made so far: tier and whether it succeeded
  clientOutcome,   \* how getBookRecommendations ended: "none", "returned", "threw"
  lookups,         \* bookPromises: per title "pending", "book" or "null"
  enriched,        \* the value enrichRecommendations returned
  lastSearch,      \* how the searchBooks call of line 559 ended
  result,          \* the value getRecommendationsForUser returned
  calls,           \* external requests issued by this run, in order
  logged           \* error.message written by console.error at line 589

\* One call of parseRecommendationsResponse on a text: the text and what it
\* was made of, the position in the function, its locals, what it returned.
VARIABLES responseText, coreText, wrapping, parsePc, cleanedText, recommendations,
          parsedRecs

orchVars == <<apiKey, genAI, primaryModel, fallbackModel, library, pc, loaded, userBooks,
              userProfile, prompt, geminiRecs, attempts, clientOutcome, lookups, enriched,
              lastSearch, result, calls, logged>>

parserVars == <<responseText, coreText, wrapping, parsePc, cleanedText, recommendations,
                parsedRecs>>

\* Concurrent calls of Book.addToUserLibrary for one user and one
\* googleBooksId: the committed rows of the two tables and, per call, its
\* position, its locals, the uncommitted write of its transaction.
VARIABLES booksTable, userLibraries, callers

upsertVars == <<booksTable, userLibraries, callers>>

\* The user_libraries rows of one user (joined with their books) and the
\* value of CURRENT_TIMESTAMP.
VARIABLES libraryTable, now

\* Calls of getBookRecommendations and getBookDescription that share the
\* module's handles: per caller the function, its position, the handles it
\* found at entry and whether it ran initializeGemini; and every
\* generateContent invocation with the handles as they were when it was made.
VARIABLES clientCalls, invoked

clientVars == <<clientCalls, invoked>>

\* what the specifications of single functions follow besides
extraVars == <<completed, libraryTable, now, clientVars>>

otherVars == <<parserVars, upsertVars, extraVars>>

vars == <<orchVars, parserVars, upsertVars, extraVars>>

\* no call of enrichRecommendations alone is being followed
ExtraOff ==
  /\ completed = <<>>
  /\ libraryTable = {}
  /\ now = 0
  /\ clientCalls = <<>>
  /\ invoked = <<>>

\* no call of addToUserLibrary is being followed
UpsertOff ==
  /\ booksTable = {}
  /\ userLibraries = {}
  /\ callers = <<>>

\* no call of the parser is being followed
ParserOff ==
  /\ responseText = <<>>
  /\ coreText = <<>>
  /\ wrapping = "none"
  /\ parsePc = "off"
  /\ cleanedText = <<>>
  /\ recommendations = [type |-> "none"]
  /\ parsedRecs = <<>>

handleVars == <<genAI, primaryModel, fallbackModel>>

Handles == [genAI |-> genAI, primaryModel |-> primaryModel, fallbackModel |-> fallbackModel]

NoSearch == [kind |-> "none", count |-> 0, threw |-> FALSE, value |-> <<>>]

Init ==
  /\ apiKey \in BOOLEAN
  /\ genAI = FALSE
  /\ primaryModel = FALSE
  /\ fallbackModel = FALSE
  /\ library \in Libraries
  /\ pc = "idle"
  /\ loaded = "none"
  /\ attempts = <<>>
  /\ enriched = <<>>
  /\ userBooks = <<>>
  /\ userProfile = <<>>
  /\ prompt = <<>>
  /\ geminiRecs = <<>>
  /\ clientOutcome = "none"
  /\ lookups = <<>>
  /\ lastSearch = NoSearch
  /\ result = <<>>
  /\ calls = <<>>
  /\ logged = ""
  /\ ParserOff
  /\ UpsertOff
  /\ ExtraOff

\* ---------------------------------------------------------------- actions
\* line 413: the library read is issued
BeginRequest ==
  /\ pc = "idle"
  /\ pc' = "load"
  /\ calls' = <<[op |-> "getUserBooks", arg |-> <<>>]>>
  /\ UNCHANGED <<apiKey, handleVars, library, loaded, userBooks, userProfile, prompt,
                 geminiRecs, attempts, clientOutcome, lookups, enriched, lastSearch, result,
                 logged>>
  /\ UNCHANGED otherVars

\* getUserBooks rejects: the outermost catch
LoadFails ==
  /\ pc = "load"
  /\ \E e \in DbErrors :
       LET c == OrchestratorCatch(e)
       IN  /\ logged' = e
           /\ result' = c.value
           /\ pc' = IF c.threw THEN "thrown" ELSE "done"
  /\ loaded' = "rejected"
  /\ UNCHANGED <<apiKey, handleVars, library, userBooks, userProfile, prompt, geminiRecs,
                 attempts, clientOutcome, lookups, enriched, lastSearch, calls>>
  /\ UNCHANGED otherVars

\* fewer than 3 rows: return at line 421
LoadInsufficient ==
  /\ pc = "load"
  /\ Gate(library)
  /\ loaded' = "rows"
  /\ userBooks' = library
  /\ result' = InsufficientResult(library)
  /\ pc' = "done"
  /\ UNCHANGED <<apiKey, handleVars, library, userProfile, prompt, geminiRecs, attempts,
                 clientOutcome, lookups, enriched, lastSearch, calls, logged>>
  /\ UNCHANGED otherVars

\* 3 rows or more: profile, then getBookRecommendations issues the primary request
LoadAndCallPrimary ==
  /\ pc = "load"
  /\ ~Gate(library)
  /\ \E o \in InitOutcomes :
       LET e == ClientEntry(Handles, apiKey, o, BuildProfile(library))
       IN  /\ ~e.threw
           /\ genAI' = e.handles.genAI
           /\ primaryModel' = e.handles.primaryModel
           /\ fallbackModel' = e.handles.fallbackModel
           /\ prompt' = e.prompt
           /\ calls' = calls \o e.issued
  /\ loaded' = "rows"
  /\ userBooks' = library
  /\ userProfile' = BuildProfile(library)
  /\ pc' = "primary"
  /\ UNCHANGED <<apiKey, library, geminiRecs, attempts, clientOutcome, lookups, enriched,
                 lastSearch, result, logged>>
  /\ UNCHANGED otherVars

\* 3 rows or more: profile, then initializeGemini throws inside getBookRecommendations
LoadAndInitThrows ==
  /\ pc = "load"
  /\ ~Gate(library)
  /\ \E o \in InitOutcomes :
       LET e == ClientEntry(Handles, apiKey, o, BuildProfile(library))
       IN  /\ e.threw
           /\ genAI' = e.handles.genAI
           /\ primaryModel' = e.handles.primaryModel
           /\ fallbackModel' = e.handles.fallbackModel
  /\ loaded' = "rows"
  /\ userBooks' = library
  /\ userProfile' = BuildProfile(library)
  /\ clientOutcome' = "threw"
  /\ pc' = "client_rejected"
  /\ UNCHANGED <<apiKey, library, prompt, geminiRecs, attempts, lookups, enriched, lastSearch,
                 result, calls, logged>>
  /\ UNCHANGED otherVars

\* the primary attempt ends and getBookRecommendations returns its candidates
PrimarySucceeds ==
  /\ pc = "primary"
  /\ \E resp \in ModelResponses :
       LET a == AfterPrimary(ModelAttempt(resp), prompt)
       IN  /\ a.next = "return"
           /\ geminiRecs' = a.recs
           /\ calls' = calls \o a.issued
           /\ attempts' = Append(attempts, [tier |-> "primary", ok |-> ModelAttempt(resp).ok,
                                         why |-> AttemptEnd(resp)])
  /\ clientOutcome' = "returned"
  /\ pc' = "client_resolved"
  /\ UNCHANGED <<apiKey, handleVars, library, loaded, userBooks, userProfile, prompt, lookups,
                 enriched, lastSearch, result, logged>>
  /\ UNCHANGED otherVars

\* the primary attempt fails (request or parsing): the fallback request is issued
PrimaryFails ==
  /\ pc = "primary"
  /\ \E resp \in ModelResponses :
       LET a == AfterPrimary(ModelAttempt(resp), prompt)
       IN  /\ a.next = "fallback"
           /\ calls' = calls \o a.issued
           /\ attempts' = Append(attempts, [tier |-> "primary", ok |-> ModelAttempt(resp).ok,
                                         why |-> AttemptEnd(resp)])
  /\ pc' = "fallback"
  /\ UNCHANGED <<apiKey, handleVars, library, loaded, userBooks, userProfile, prompt,
                 geminiRecs, clientOutcome, lookups, enriched, lastSearch, result, logged>>
  /\ UNCHANGED otherVars

\* the fallback attempt ends: its candidates, or [] when it failed too
FallbackEnds ==
  /\ pc = "fallback"
  /\ \E resp \in ModelResponses :
       LET a == AfterFallback(ModelAttempt(resp))
       IN  /\ geminiRecs' = a.recs
           /\ clientOutcome' = IF a.threw THEN "threw" ELSE "returned"
           /\ pc' = IF a.threw THEN "client_rejected" ELSE "client_resolved"
           /\ attempts' = Append(attempts, [tier |-> "fallback", ok |-> ModelAttempt(resp).ok,
                                         why |-> AttemptEnd(resp)])
  /\ UNCHANGED <<apiKey, handleVars, library, loaded, userBooks, userProfile, prompt, lookups,
                 enriched, lastSearch, result, calls, logged>>
  /\ UNCHANGED otherVars

\* line 522: every per-title lookup is started
EnrichStart ==
  /\ pc = "client_resolved"
  /\ HasRecs(geminiRecs)
  /\ lookups' = [i \in 1..Len(geminiRecs) |->
                   [state |-> "pending", book |-> <<>>, threw |-> FALSE, hits |-> 0]]
  /\ calls' = calls \o EnrichRequests(geminiRecs)
  /\ pc' = "enrich"
  /\ UNCHANGED <<apiKey, handleVars, library, loaded, userBooks, userProfile, prompt,
                 geminiRecs, attempts, clientOutcome, enriched, lastSearch, result, logged>>
  /\ UNCHANGED otherVars

\* one catalog request of the enrichment completes, in any order
LookupCompletes ==
  /\ pc = "enrich"
  /\ \E i \in 1..Len(lookups) :
       /\ lookups[i].state = "pending"
       /\ \E resp \in CatalogResponses(EnrichMaxResults) :
            lookups' = [lookups EXCEPT ![i] = EnrichOne(resp)]
  /\ UNCHANGED <<apiKey, handleVars, library, pc, loaded, userBooks, userProfile, prompt,
                 geminiRecs, attempts, clientOutcome, enriched, lastSearch, result, calls,
                 logged>>
  /\ UNCHANGED otherVars

\* Promise.all resolves: enrichRecommendations returns, the merge, the return
EnrichJoin ==
  /\ pc = "enrich"
  /\ \A i \in 1..Len(lookups) : lookups[i].state # "pending"
  /\ enriched' = EnrichedBooks(lookups)
  /\ result' = AIResult(EnrichedBooks(lookups), geminiRecs, userProfile)
  /\ pc' = "done"
  /\ UNCHANGED <<apiKey, handleVars, library, loaded, userBooks, userProfile, prompt,
                 geminiRecs, attempts, clientOutcome, lookups, lastSearch, calls, logged>>
  /\ UNCHANGED otherVars

\* the inner catch: no candidates, or the client threw; the genre search is issued
GenreSearchStart ==
  /\ pc \in {"client_resolved", "client_rejected"}
  /\ pc = "client_resolved" => ~HasRecs(geminiRecs)
  /\ calls' = Append(calls, [op |-> "searchBooks",
                             arg |-> [query |-> FallbackQuery(userProfile.topGenres),
                                      maxResults |-> FallbackMaxResults]])
  /\ pc' = "genre"
  /\ UNCHANGED <<apiKey, handleVars, library, loaded, userBooks, userProfile, prompt,
                 geminiRecs, attempts, clientOutcome, lookups, enriched, lastSearch, result,
                 logged>>
  /\ UNCHANGED otherVars

\* the genre search completes: Genre-based or Failed (a rejection of
\* searchBooks would leave the inner catch for the outermost one)
GenreSearchEnds ==
  /\ pc = "genre"
  /\ \E resp \in CatalogResponses(FallbackMaxResults) :
       LET r == searchBooks(resp)
           c == OrchestratorCatch("searchBooks rejected")
       IN  /\ lastSearch' = [kind |-> resp.kind,
                             count |-> IF resp.kind = "items" THEN Len(resp.items) ELSE 0,
                             threw |-> r.threw, value |-> r.value]
           /\ result' = IF r.threw THEN c.value
                        ELSE GenreResult(r.value, userProfile.topGenres, userProfile)
           /\ logged' = IF r.threw THEN "searchBooks rejected" ELSE logged
           /\ pc' = IF r.threw /\ c.threw THEN "thrown" ELSE "done"
  /\ UNCHANGED <<apiKey, handleVars, library, loaded, userBooks, userProfile, prompt,
                 geminiRecs, attempts, clientOutcome, lookups, enriched, calls>>
  /\ UNCHANGED otherVars

\* the next request of the same process: the handles stay as they are
NextRequest ==
  /\ pc \in {"done", "thrown"}
  /\ pc' = "idle"
  /\ loaded' = "none"
  /\ userBooks' = <<>>
  /\ userProfile' = <<>>
  /\ prompt' = <<>>
  /\ geminiRecs' = <<>>
  /\ attempts' = <<>>
  /\ clientOutcome' = "none"
  /\ lookups' = <<>>
  /\ enriched' = <<>>
  /\ lastSearch' = NoSearch
  /\ result' = <<>>
  /\ calls' = <<>>
  /\ logged' = ""
  /\ UNCHANGED <<apiKey, handleVars, library>>
  /\ UNCHANGED otherVars

Next ==
  \/ BeginRequest
  \/ LoadFails
  \/ LoadInsufficient
  \/ LoadAndCallPrimary
  \/ LoadAndInitThrows
  \/ PrimarySucceeds
  \/ PrimaryFails
  \/ FallbackEnds
  \/ EnrichStart
  \/ LookupCompletes
  \/ EnrichJoin
  \/ GenreSearchStart
  \/ GenreSearchEnds
  \/ NextRequest

Spec == Init /\ [][Next]_vars

\* ------------------------------------------------ runs over category lists
\* The profile analysis of lines 436-449 applied to shelves of 3..MaxShelf
\* books whose rows differ in their categories only.
ShelfCategories == {<<"A">>, <<"B">>, <<"C">>, <<"D", "A">>}

Shelf(cs) ==
  [i \in 1..Len(cs) |-> [title |-> "Book " \o ToString(i), authors |-> <<>>,
                          categories |-> cs[i], page_count |-> Null, average_rating |-> Null]]

Shelves == {Shelf(cs) : cs \in {c \in SeqsUpTo(ShelfCategories, MaxShelf) : Len(c) >= MinBooks}}

InitShelf ==
  /\ apiKey = TRUE
  /\ genAI = FALSE
  /\ primaryModel = FALSE
  /\ fallbackModel = FALSE
  /\ library \in Shelves
  /\ pc = "idle"
  /\ loaded = "none"
  /\ attempts = <<>>
  /\ enriched = <<>>
  /\ userBooks = <<>>
  /\ userProfile = <<>>
  /\ prompt = <<>>
  /\ geminiRecs = <<>>
  /\ clientOutcome = "none"
  /\ lookups = <<>>
  /\ lastSearch = NoSearch
  /\ result = <<>>
  /\ calls = <<>>
  /\ logged = ""
  /\ ParserOff
  /\ UpsertOff
  /\ ExtraOff

NextShelf ==
  \/ BeginRequest
  \/ LoadAndCallPrimary

SpecShelf == InitShelf /\ [][NextShelf]_vars

\* ------------------------------------------- runs with a long model answer
\* The model is asked for "exactly 10" books (prompt, line 118) but answers
\* with an array of any length: runs of one library in which the primary
\* answer has 1..MaxLong valid elements and the lookups complete in the order
\* of the titles, each with no item or with one volume.
LongLibrary ==
  CHOOSE l \in Libraries :
    /\ Len(l) = MinBooks
    /\ l[1].title = "The Hobbit" /\ l[2].title = "The Silmarillion" /\ l[3].title = "Foundation"

LongResponses ==
  {[kind |-> "array", elems |-> [i \in 1..n |-> e]] :
     n \in 1..MaxLong,
     e \in {m \in ModelElems : m.title # "" /\ m.author # "" /\ m.reason # ""}}

LongCatalogResponses ==
  {r \in CatalogResponses(EnrichMaxResults) :
     r.kind = "noitems" \/ (r.kind = "items" /\ Len(r.items) = 1 /\ r.items[1].id # "")}

InitLong == Init /\ apiKey /\ library = LongLibrary

PrimaryReturnsLong ==
  /\ pc = "primary"
  /\ \E resp \in LongResponses :
       LET a == AfterPrimary(ModelAttempt(resp), prompt)
       IN  /\ a.next = "return"
           /\ geminiRecs' = a.recs
           /\ calls' = calls \o a.issued
           /\ attempts' = Append(attempts, [tier |-> "primary", ok |-> ModelAttempt(resp).ok,
                                         why |-> AttemptEnd(resp)])
  /\ clientOutcome' = "returned"
  /\ pc' = "client_resolved"
  /\ UNCHANGED <<apiKey, handleVars, library, loaded, userBooks, userProfile, prompt, lookups,
                 enriched, lastSearch, result, logged>>
  /\ UNCHANGED otherVars

LookupCompletesInOrder ==
  /\ pc = "enrich"
  /\ \E i \in 1..Len(lookups) :
       /\ lookups[i].state = "pending"
       /\ \A j \in 1..(i - 1) : lookups[j].state # "pending"
       /\ \E resp \in LongCatalogResponses :
            lookups' = [lookups EXCEPT ![i] = EnrichOne(resp)]
  /\ UNCHANGED <<apiKey, handleVars, library, pc, loaded, userBooks, userProfile, prompt,
                 geminiRecs, attempts, clientOutcome, enriched, lastSearch, result, calls,
                 logged>>
  /\ UNCHANGED otherVars

NextLong ==
  \/ BeginRequest
  \/ LoadAndCallPrimary
  \/ PrimaryReturnsLong
  \/ EnrichStart
  \/ LookupCompletesInOrder
  \/ EnrichJoin

SpecLong == InitLong /\ [][NextLong]_vars

\* --------------------------------------------- calls of the parser on texts
\* The texts a model may answer with: a JSON array of up to MaxElems
\* elements (candidate objects or null), written on one line or one element
\* per line, or a text that is no array; alone, fenced, between prose (with
\* or without brackets in it), or as the one field of an object.
ArrayItems == ObjTexts \cup {"null"}

RECURSIVE Join(_, _)
Join(items, sep) ==
  IF items = <<>> THEN <<>>
  ELSE IF Len(items) = 1 THEN items
  ELSE <<Head(items)>> \o sep \o Join(Tail(items), sep)

ArrayText(items, pretty) ==
  IF items = <<>> THEN <<"[", "]">>
  ELSE IF pretty THEN <<"[", NL, SP>> \o Join(items, <<",", NL, SP>>) \o <<NL, "]">>
  ELSE <<"[">> \o Join(items, <<",">>) \o <<"]">>

ArrayTexts == {ArrayText(items, pretty) : items \in SeqsUpTo(ArrayItems, MaxElems),
                                          pretty \in BOOLEAN}

AnObject == ObjText(CHOOSE e \in ModelElems : e.title = "Dune")

OtherTexts ==
  { <<>>, <<"Here">>, <<"null">>, <<AnObject>>,
    <<"{", KeyText, ":", AnObject, "}">>,
    <<"[", AnObject, ",", "]">>,
    <<"[", AnObject>> }

Wrappings ==
  {"alone", "padded", "json-fence", "bare-fence", "tight-fence", "prose-before",
   "prose-after", "prose-around-fence", "object-field", "bracket-prose-before",
   "bracket-prose-after"}

Wrap(w, x) ==
  CASE w = "alone" -> x
    [] w = "padded" -> <<NL, SP>> \o x \o <<SP, NL>>
    [] w = "json-fence" -> <<Fence, JsonWord, NL>> \o x \o <<NL, Fence>>
    [] w = "bare-fence" -> <<Fence, NL>> \o x \o <<NL, Fence>>
    [] w = "tight-fence" -> <<Fence, JsonWord>> \o x \o <<Fence>>
    [] w = "prose-before" -> <<"Here", SP, "are", SP, "books", ":", NL>> \o x
    [] w = "prose-after" -> x \o <<NL, "Enjoy">>
    [] w = "prose-around-fence" ->
         <<"Here", ":", NL, Fence, JsonWord, NL>> \o x \o <<NL, Fence, NL, "Enjoy">>
    [] w = "object-field" -> <<"{", KeyText, ":">> \o x \o <<"}">>
    [] w = "bracket-prose-before" -> <<"Here", SP, "[", "books", "]", ":", NL>> \o x
    [] w = "bracket-prose-after" -> x \o <<NL, "Enjoy", SP, "[", "books", "]">>

OrchestratorOff ==
  /\ apiKey = FALSE
  /\ genAI = FALSE
  /\ primaryModel = FALSE
  /\ fallbackModel = FALSE
  /\ library = <<>>
  /\ pc = "off"
  /\ loaded = "none"
  /\ attempts = <<>>
  /\ enriched = <<>>
  /\ userBooks = <<>>
  /\ userProfile = <<>>
  /\ prompt = <<>>
  /\ geminiRecs = <<>>
  /\ clientOutcome = "none"
  /\ lookups = <<>>
  /\ lastSearch = NoSearch
  /\ result = <<>>
  /\ calls = <<>>
  /\ logged = ""

InitParser ==
  /\ OrchestratorOff
  /\ coreText \in ArrayTexts \cup OtherTexts
  /\ wrapping \in Wrappings
  /\ responseText = Wrap(wrapping, coreText)
  /\ parsePc = "entry"
  /\ cleanedText = <<>>
  /\ recommendations = [type |-> "none"]
  /\ parsedRecs = <<>>
  /\ UpsertOff
  /\ ExtraOff

\* lines 151-157
DoStripFences ==
  /\ parsePc = "entry"
  /\ cleanedText' = StripFences(responseText)
  /\ parsePc' = "stripped"
  /\ UNCHANGED <<orchVars, upsertVars, extraVars, responseText, coreText, wrapping, recommendations, parsedRecs>>

\* lines 160-163
DoExtractArray ==
  /\ parsePc = "stripped"
  /\ cleanedText' = ExtractArray(cleanedText)
  /\ parsePc' = "extracted"
  /\ UNCHANGED <<orchVars, upsertVars, extraVars, responseText, coreText, wrapping, recommendations, parsedRecs>>

\* line 166, JSON.parse returns
DoJSONparse ==
  /\ parsePc = "extracted"
  /\ JSONparse(cleanedText).ok
  /\ recommendations' = JSONparse(cleanedText).val
  /\ parsePc' = "parsed"
  /\ UNCHANGED <<orchVars, upsertVars, extraVars, responseText, coreText, wrapping, cleanedText, parsedRecs>>

\* line 166, JSON.parse throws: the catch of lines 188-192 rethrows
JSONparseThrows ==
  /\ parsePc = "extracted"
  /\ ~JSONparse(cleanedText).ok
  /\ parsePc' = "threw"
  /\ UNCHANGED <<orchVars, upsertVars, extraVars, responseText, coreText, wrapping, cleanedText, recommendations,
                 parsedRecs>>

\* lines 168-187: the candidates are returned
ValidateReturns ==
  /\ parsePc = "parsed"
  /\ Validate(recommendations).ok
  /\ parsedRecs' = Validate(recommendations).recs
  /\ parsePc' = "returned"
  /\ UNCHANGED <<orchVars, upsertVars, extraVars, responseText, coreText, wrapping, cleanedText, recommendations>>

\* lines 168-180: not an array, a null element, or no valid element
ValidateThrows ==
  /\ parsePc = "parsed"
  /\ ~Validate(recommendations).ok
  /\ parsePc' = "threw"
  /\ UNCHANGED <<orchVars, upsertVars, extraVars, responseText, coreText, wrapping, cleanedText, recommendations,
                 parsedRecs>>

NextParser ==
  \/ DoStripFences
  \/ DoExtractArray
  \/ DoJSONparse
  \/ JSONparseThrows
  \/ ValidateReturns
  \/ ValidateThrows

SpecParser == InitParser /\ [][NextParser]_vars

\* ------------------------------------- concurrent calls of addToUserLibrary
\* MaxCallers requests POST /api/books of one user for one googleBooksId run
\* at once.  findOrCreate goes through query(), that is pool.query: each of
\* its statements is its own committed transaction, outside the BEGIN of the
\* caller.  The statements on user_libraries run on the caller's client, in
\* its transaction (PostgreSQL, READ COMMITTED: a SELECT sees committed rows;
\* an INSERT that meets an uncommitted row with the same unique key waits
\* for that transaction to end).  Schema: books.google_books_id UNIQUE,
\* user_libraries UNIQUE(user_id, book_id).
Callers == 1..MaxCallers
TheUser == "user-1"
TheGoogleBooksId == "gb-1"
Statuses == {"want_to_read", "read"}
NoBook == [id |-> -1, google_books_id |-> ""]
ErrBooksUnique == "duplicate key value violates unique constraint books_google_books_id_key"
ErrLibraryUnique == "duplicate key value violates unique constraint user_libraries_user_id_book_id_key"

InitUpsert ==
  /\ OrchestratorOff
  /\ ParserOff
  /\ ExtraOff
  /\ booksTable \in {{}, {[id |-> 0, google_books_id |-> TheGoogleBooksId]}}
  /\ userLibraries = {}
  /\ callers \in [Callers -> {[pc |-> "called", status |-> st, book |-> NoBook,
                                existing |-> FALSE, wrote |-> "none", isNew |-> FALSE,
                                error |-> ""] : st \in Statuses}]

\* lines 87-90: a client is taken from the pool, BEGIN
BeginTransaction(c) ==
  /\ callers[c].pc = "called"
  /\ callers' = [callers EXCEPT ![c].pc = "begun"]
  /\ UNCHANGED <<booksTable, userLibraries>>

\* findOrCreate, lines 26-29: findByGoogleBooksId
FindByGoogleBooksId(c) ==
  /\ callers[c].pc = "begun"
  /\ LET rows == {b \in booksTable : b.google_books_id = TheGoogleBooksId}
     IN  IF rows = {}
         THEN callers' = [callers EXCEPT ![c].pc = "book_missing"]
         ELSE \E b \in rows : callers' = [callers EXCEPT ![c].pc = "book_found", ![c].book = b]
  /\ UNCHANGED <<booksTable, userLibraries>>

\* findOrCreate, line 63: INSERT INTO books; the unique constraint rejects a
\* second row, and the catch of lines 126-128 rolls back and rethrows
InsertBook(c) ==
  /\ callers[c].pc = "book_missing"
  /\ IF \E b \in booksTable : b.google_books_id = TheGoogleBooksId
     THEN /\ callers' = [callers EXCEPT ![c].pc = "threw", ![c].error = ErrBooksUnique]
          /\ UNCHANGED booksTable
     ELSE LET b == [id |-> c, google_books_id |-> TheGoogleBooksId]
          IN  /\ booksTable' = booksTable \cup {b}
              /\ callers' = [callers EXCEPT ![c].pc = "book_found", ![c].book = b]
  /\ UNCHANGED userLibraries

\* line 100: SELECT ... FROM user_libraries WHERE user_id AND book_id
CheckLibrary(c) ==
  /\ callers[c].pc = "book_found"
  /\ callers' = [callers EXCEPT
                   ![c].pc = "checked",
                   ![c].existing = \E r \in userLibraries :
                                     r.user_id = TheUser /\ r.book_id = callers[c].book.id]
  /\ UNCHANGED <<booksTable, userLibraries>>

\* true when another transaction holds an uncommitted write on the row of c
RowBusy(c) ==
  \E d \in Callers \ {c} :
     /\ callers[d].pc = "written"
     /\ callers[d].book.id = callers[c].book.id

\* line 110: UPDATE user_libraries SET status
UpdateEntry(c) ==
  /\ callers[c].pc = "checked"
  /\ callers[c].existing
  /\ ~RowBusy(c)
  /\ callers' = [callers EXCEPT ![c].pc = "written", ![c].wrote = "update"]
  /\ UNCHANGED <<booksTable, userLibraries>>

\* line 121: INSERT INTO user_libraries; a committed row with the same
\* (user_id, book_id) is a unique violation: ROLLBACK and rethrow
InsertEntry(c) ==
  /\ callers[c].pc = "checked"
  /\ ~callers[c].existing
  /\ ~RowBusy(c)
  /\ IF \E r \in userLibraries : r.user_id = TheUser /\ r.book_id = callers[c].book.id
     THEN callers' = [callers EXCEPT ![c].pc = "threw", ![c].error = ErrLibraryUnique]
     ELSE callers' = [callers EXCEPT ![c].pc = "written", ![c].wrote = "insert"]
  /\ UNCHANGED <<booksTable, userLibraries>>

\* lines 112-113 and 123-124: COMMIT, return { book, userBook, isNew }
CommitAndReturn(c) ==
  /\ callers[c].pc = "written"
  /\ LET row == [user_id |-> TheUser, book_id |-> callers[c].book.id,
                  status |-> callers[c].status]
     IN  userLibraries' =
           {r \in userLibraries : ~(r.user_id = TheUser /\ r.book_id = callers[c].book.id)}
             \cup {row}
  /\ callers' = [callers EXCEPT ![c].pc = "returned",
                                ![c].isNew = (callers[c].wrote = "insert")]
  /\ UNCHANGED booksTable

NextUpsert ==
  \E c \in Callers :
     \/ BeginTransaction(c) /\ UNCHANGED <<orchVars, parserVars, extraVars>>
     \/ FindByGoogleBooksId(c) /\ UNCHANGED <<orchVars, parserVars, extraVars>>
     \/ InsertBook(c) /\ UNCHANGED <<orchVars, parserVars, extraVars>>
     \/ CheckLibrary(c) /\ UNCHANGED <<orchVars, parserVars, extraVars>>
     \/ UpdateEntry(c) /\ UNCHANGED <<orchVars, parserVars, extraVars>>
     \/ InsertEntry(c) /\ UNCHANGED <<orchVars, parserVars, extraVars>>
     \/ CommitAndReturn(c) /\ UNCHANGED <<orchVars, parserVars, extraVars>>

SpecUpsert == InitUpsert /\ [][NextUpsert]_vars

\* ----------------------------------------- enrichRecommendations alone
\* One call of enrichRecommendations (part_004 lines 115-154) on the titles
\* of a candidate list, with the order in which its requests complete.
EnrichInputs == {s \in SeqsUpTo(ModelElems, MaxRecs) : Len(s) > 0}

InitEnrich ==
  /\ apiKey = FALSE
  /\ genAI = FALSE
  /\ primaryModel = FALSE
  /\ fallbackModel = FALSE
  /\ library = <<>>
  /\ pc = "enrich_entry"
  /\ loaded = "none"
  /\ attempts = <<>>
  /\ enriched = <<>>
  /\ userBooks = <<>>
  /\ userProfile = <<>>
  /\ prompt = <<>>
  /\ geminiRecs \in EnrichInputs
  /\ clientOutcome = "none"
  /\ lookups = <<>>
  /\ lastSearch = NoSearch
  /\ result = <<>>
  /\ calls = <<>>
  /\ logged = ""
  /\ ExtraOff
  /\ ParserOff
  /\ UpsertOff

\* lines 122-139: map runs every closure up to its await of searchBooks
StartLookups ==
  /\ pc = "enrich_entry"
  /\ lookups' = [i \in 1..Len(geminiRecs) |->
                   [state |-> "pending", book |-> <<>>, threw |-> FALSE, hits |-> 0]]
  /\ calls' = calls \o EnrichRequests(geminiRecs)
  /\ pc' = "enrich"
  /\ UNCHANGED <<apiKey, handleVars, library, loaded, userBooks, userProfile, prompt,
                 geminiRecs, attempts, clientOutcome, enriched, lastSearch, result, logged>>
  /\ UNCHANGED <<parserVars, upsertVars, completed, libraryTable, now, clientVars>>

\* lines 126-138: the request of one closure completes, in any order
LookupCompletesNext ==
  /\ pc = "enrich"
  /\ \E i \in 1..Len(lookups) :
       /\ lookups[i].state = "pending"
       /\ completed' = Append(completed, i)
       /\ \E resp \in CatalogResponses(EnrichMaxResults) :
            lookups' = [lookups EXCEPT ![i] = EnrichOne(resp)]
  /\ UNCHANGED <<apiKey, handleVars, library, pc, loaded, userBooks, userProfile, prompt,
                 geminiRecs, attempts, clientOutcome, enriched, lastSearch, result, calls,
                 logged>>
  /\ UNCHANGED <<parserVars, upsertVars, libraryTable, now, clientVars>>

\* lines 141-147: Promise.all resolves, the loop, the return
PromiseAllResolves ==
  /\ pc = "enrich"
  /\ \A i \in 1..Len(lookups) : lookups[i].state # "pending"
  /\ enriched' = EnrichedBooks(lookups)
  /\ pc' = "enrich_returned"
  /\ UNCHANGED <<apiKey, handleVars, library, loaded, userBooks, userProfile, prompt,
                 geminiRecs, attempts, clientOutcome, lookups, lastSearch, result, calls,
                 logged>>
  /\ UNCHANGED <<parserVars, upsertVars, completed, libraryTable, now, clientVars>>

NextEnrich ==
  \/ StartLookups
  \/ LookupCompletesNext
  \/ PromiseAllResolves

SpecEnrich == InitEnrich /\ [][NextEnrich]_vars

\* ------------------------------------- the library behind getUserBooks
\* Writes to the user_libraries rows of one user (part_003 addBookToLibrary
\* and updateBookStatus), each at the current timestamp, and the read of
\* getRecommendationsForUser steps 1-4 (getUserBooks, then the profile).
\* Every write is a statement of its own and CURRENT_TIMESTAMP has moved on
\* when it runs: now counts the writes.
InLibrary(book) == \E r \in libraryTable : r.book = book

\* UPDATE ... SET status, updated_at = CURRENT_TIMESTAMP of one row
Updated(book, status) ==
  {IF r.book = book THEN [r EXCEPT !.status = status, !.updated_at = now + 1] ELSE r :
     r \in libraryTable}

MayPrecede_AddedOnly(r1, r2) == r1.added_at >= r2.added_at

\* ORDER BY ul.updated_at DESC, ul.added_at DESC (part_003 line 59): r1 may
\* stand before r2 in the result
MayPrecede(r1, r2) ==
  \/ r1.updated_at > r2.updated_at
  \/ r1.updated_at = r2.updated_at /\ r1.added_at >= r2.added_at

\* the row arrays the SELECT of getUserBooks can return: every row once, in
\* an order the ORDER BY allows, each with the columns of its book
getUserBooks(table) ==
  LET n == Cardinality(table)
      orders == {f \in [1..n -> table] :
                   /\ \A i, j \in 1..n : i # j => f[i] # f[j]
                   /\ \A i, j \in 1..n : i < j => MayPrecede(f[i], f[j])}
  IN  {[i \in 1..n |-> f[i].book] : f \in orders}

InitLibrary ==
  /\ OrchestratorOff
  /\ ParserOff
  /\ UpsertOff
  /\ ExtraOff

\* part_003 lines 78-120: update the entry if there is one, insert it if not
addBookToLibrary ==
  /\ \E book \in LibraryRows, status \in Statuses :
       libraryTable' =
         IF InLibrary(book) THEN Updated(book, status)
         ELSE libraryTable \cup {[book |-> book, status |-> status,
                                  added_at |-> now + 1, updated_at |-> now + 1]}
  /\ now < MaxClock
  /\ now' = now + 1
  /\ userBooks' = <<>>
  /\ userProfile' = <<>>
  /\ UNCHANGED <<apiKey, handleVars, library, pc, loaded, prompt, geminiRecs, attempts,
                 clientOutcome, lookups, enriched, lastSearch, result, calls, logged>>
  /\ UNCHANGED <<parserVars, upsertVars, completed, clientVars>>

\* part_003 lines 130-160: the UPDATE of the row, when there is one
updateBookStatus ==
  /\ \E book \in LibraryRows, status \in Statuses :
       /\ InLibrary(book)
       /\ libraryTable' = Updated(book, status)
  /\ now < MaxClock
  /\ now' = now + 1
  /\ userBooks' = <<>>
  /\ userProfile' = <<>>
  /\ UNCHANGED <<apiKey, handleVars, library, pc, loaded, prompt, geminiRecs, attempts,
                 clientOutcome, lookups, enriched, lastSearch, result, calls, logged>>
  /\ UNCHANGED <<parserVars, upsertVars, completed, clientVars>>

\* geminiService.js lines 413-495: the rows are read and the profile built
ReadProfile ==
  /\ userBooks = <<>>
  /\ \E rows \in getUserBooks(libraryTable) :
       /\ ~Gate(rows)
       /\ userBooks' = rows
       /\ userProfile' = BuildProfile(rows)
  /\ UNCHANGED <<apiKey, handleVars, library, pc, loaded, prompt, geminiRecs, attempts,
                 clientOutcome, lookups, enriched, lastSearch, result, calls, logged>>
  /\ UNCHANGED <<parserVars, upsertVars, extraVars>>

NextLibrary ==
  \/ updateBookStatus
  \/ addBookToLibrary
  \/ ReadProfile

SpecLibrary == InitLibrary /\ [][NextLibrary]_vars

\* ------------------------------------------- author and page aggregates
\* Libraries that differ in the authors arrays of their rows (none, one,
\* two, the same name twice) and libraries that differ in their page counts
\* (absent, small, large), for steps 3b and 3c of getRecommendationsForUser.
AuthorLists == {<<>>, <<"Ann">>, <<"Bob">>, <<"Ann", "Bob">>, <<"Ann", "Ann">>}

PageCounts == {Null, 1, 2, 301}

AuthorShelf(names) ==
  [i \in 1..Len(names) |-> [title |-> "Book " \o ToString(i), authors |-> names[i],
                          categories |-> <<>>, page_count |-> Null, average_rating |-> Null]]

PageShelf(ps) ==
  [i \in 1..Len(ps) |-> [title |-> "Book " \o ToString(i), authors |-> <<>>,
                          categories |-> <<>>, page_count |-> ps[i], average_rating |-> Null]]

AuthorShelves ==
  {AuthorShelf(names) : names \in {a \in SeqsUpTo(AuthorLists, MaxRows) : Len(a) >= MinBooks}}

PageShelves ==
  {PageShelf(ps) : ps \in {q \in SeqsUpTo(PageCounts, MaxRows) : Len(q) >= MinBooks}}

InitAggregates ==
  /\ apiKey = TRUE
  /\ genAI = FALSE
  /\ primaryModel = FALSE
  /\ fallbackModel = FALSE
  /\ library \in AuthorShelves \cup PageShelves
  /\ pc = "idle"
  /\ loaded = "none"
  /\ attempts = <<>>
  /\ enriched = <<>>
  /\ userBooks = <<>>
  /\ userProfile = <<>>
  /\ prompt = <<>>
  /\ geminiRecs = <<>>
  /\ clientOutcome = "none"
  /\ lookups = <<>>
  /\ lastSearch = NoSearch
  /\ result = <<>>
  /\ calls = <<>>
  /\ logged = ""
  /\ ParserOff
  /\ UpsertOff
  /\ ExtraOff

NextAggregates ==
  \/ BeginRequest
  \/ LoadAndCallPrimary

SpecAggregates == InitAggregates /\ [][NextAggregates]_vars

\* --------------------------------------------- runs whose awaits all settle
\* The orchestrator on a library of zero to three rows, with every awaited
\* call settling: a step of a run that can be taken is eventually taken.
\* Whether a request arrives (BeginRequest, NextRequest) is left open.
RowTitled(t) == CHOOSE r \in LibraryRows : r.title = t

LiveRows == <<RowTitled("The Hobbit"), RowTitled("The Silmarillion"), RowTitled("Foundation")>>

LiveLibraries == {Take(LiveRows, n) : n \in 0..Len(LiveRows)}

InitLive == Init /\ library \in LiveLibraries

\* the continuations of one run: each waits on one promise, and runs when it settles
RunStep ==
  \/ LoadFails
  \/ LoadInsufficient
  \/ LoadAndCallPrimary
  \/ LoadAndInitThrows
  \/ PrimarySucceeds
  \/ PrimaryFails
  \/ FallbackEnds
  \/ EnrichStart
  \/ LookupCompletes
  \/ EnrichJoin
  \/ GenreSearchStart
  \/ GenreSearchEnds

SpecLive == InitLive /\ [][Next]_vars /\ WF_vars(RunStep)

\* ------------------------------------------ the lazily initialised client
\* Calls of getBookRecommendations and getBookDescription by several
\* callers, and direct calls of initializeGemini, in any interleaving. Each
\* function runs from its entry to its first await without interruption.
ClientFns == {"getBookRecommendations", "getBookDescription"}

NotCalled == [fn |-> "", pc |-> "idle", found |-> <<>>, initRan |-> FALSE]

\* lines 236-239 and 342-344: initializeGemini runs when a handle is unset
GuardedInit(h, key, outcome) ==
  IF NeedsInit(h)
  THEN [ran |-> TRUE, init |-> initializeGemini(key, outcome, h)]
  ELSE [ran |-> FALSE,
        init |-> [threw |-> FALSE, genAI |-> h.genAI, primaryModel |-> h.primaryModel,
                  fallbackModel |-> h.fallbackModel]]

InitClient ==
  /\ apiKey \in BOOLEAN
  /\ genAI = FALSE
  /\ primaryModel = FALSE
  /\ fallbackModel = FALSE
  /\ library = <<>>
  /\ pc = "off"
  /\ loaded = "none"
  /\ attempts = <<>>
  /\ enriched = <<>>
  /\ userBooks = <<>>
  /\ userProfile = <<>>
  /\ prompt = <<>>
  /\ geminiRecs = <<>>
  /\ clientOutcome = "none"
  /\ lookups = <<>>
  /\ lastSearch = NoSearch
  /\ result = <<>>
  /\ calls = <<>>
  /\ logged = ""
  /\ ParserOff
  /\ UpsertOff
  /\ completed = <<>>
  /\ libraryTable = {}
  /\ now = 0
  /\ clientCalls = [c \in Callers |-> NotCalled]
  /\ invoked = <<>>

ClientRest == <<apiKey, library, pc, loaded, userBooks, userProfile, prompt, geminiRecs,
                attempts, clientOutcome, lookups, enriched, lastSearch, result, calls, logged,
                parserVars, upsertVars, completed, libraryTable, now>>

\* lines 234-249 and 341-349: the guard, the initialization when it is
\* needed, and the primary model's generateContent unless that threw
CallEntry(c) ==
  /\ clientCalls[c].pc = "idle"
  /\ \E fn \in ClientFns, o \in InitOutcomes :
       LET g == GuardedInit(Handles, apiKey, o)
           h == [genAI |-> g.init.genAI, primaryModel |-> g.init.primaryModel,
                 fallbackModel |-> g.init.fallbackModel]
       IN  /\ genAI' = h.genAI
           /\ primaryModel' = h.primaryModel
           /\ fallbackModel' = h.fallbackModel
           /\ clientCalls' = [clientCalls EXCEPT ![c] =
                                [fn |-> fn,
                                 pc |-> IF g.init.threw THEN "threw" ELSE "await_primary",
                                 found |-> Handles, initRan |-> g.ran]]
           /\ invoked' = IF g.init.threw THEN invoked
                         ELSE Append(invoked, [caller |-> c, tier |-> "primary", handles |-> h])
  /\ UNCHANGED ClientRest

\* lines 249-258 and 349-351: the primary attempt succeeds, the call returns
PrimaryReturns(c) ==
  /\ clientCalls[c].pc = "await_primary"
  /\ clientCalls' = [clientCalls EXCEPT ![c].pc = "returned"]
  /\ UNCHANGED <<handleVars, invoked, ClientRest>>

\* lines 259-264 and 352-355: the primary attempt fails, the secondary
\* model's generateContent is invoked
FallbackInvoked(c) ==
  /\ clientCalls[c].pc = "await_primary"
  /\ clientCalls' = [clientCalls EXCEPT ![c].pc = "await_fallback"]
  /\ invoked' = Append(invoked, [caller |-> c, tier |-> "fallback", handles |-> Handles])
  /\ UNCHANGED <<handleVars, ClientRest>>

\* lines 264-287 and 355-361: the secondary attempt ends either way, the
\* call returns
FallbackReturns(c) ==
  /\ clientCalls[c].pc = "await_fallback"
  /\ clientCalls' = [clientCalls EXCEPT ![c].pc = "returned"]
  /\ UNCHANGED <<handleVars, invoked, ClientRest>>

\* lines 34-65: a direct call of the exported initializeGemini
DirectInitialize ==
  /\ \E o \in InitOutcomes :
       LET i == initializeGemini(apiKey, o, Handles)
       IN  /\ genAI' = i.genAI
           /\ primaryModel' = i.primaryModel
           /\ fallbackModel' = i.fallbackModel
  /\ Handles' # Handles
  /\ UNCHANGED <<clientVars, ClientRest>>

NextClient ==
  \/ DirectInitialize
  \/ \E c \in Callers :
       \/ CallEntry(c)
       \/ PrimaryReturns(c)
       \/ FallbackInvoked(c)
       \/ FallbackReturns(c)

SpecClient == InitClient /\ [][NextClient]_vars

\* ------------------------------------------------------------- properties
TypeOK ==
  /\ pc \in {"idle", "load", "primary", "fallback", "client_resolved", "client_rejected",
             "enrich", "genre", "done", "thrown", "off", "enrich_entry",
             "enrich_returned"}
  /\ parsePc \in {"off", "entry", "stripped", "extracted", "parsed", "returned", "threw"}
  /\ loaded \in {"none", "rows", "rejected"}
  /\ clientOutcome \in {"none", "returned", "threw"}

Done == pc = "done"
HasSource(s) == "source" \in DOMAIN result /\ result.source = s
ModelCalls == {i \in 1..Len(calls) : calls[i].op \in {"primary", "fallback"}}
CatalogCalls == {i \in 1..Len(calls) : calls[i].op = "searchBooks"}
FullProfileFields ==
  {"totalBooks", "topGenres", "favoriteAuthors", "recentBooks", "avgPageCount", "avgRating"}

\* the titles whose lookup returned at least one result, and the place each
\* takes among them
Matched == {i \in 1..Len(lookups) : lookups[i].hits > 0}
PlaceOf(i) == Cardinality({k \in Matched : k <= i})

\* C1: a library of fewer than 3 rows ends in the insufficient-data result
\* (recommendations = [], the add-3-books message, userProfile = {totalBooks: n},
\* no source) without any model or catalog request; a model request is only
\* ever issued for 3 rows or more and after the full profile is built.
C1_Gate ==
  /\ (loaded = "rows" /\ Len(userBooks) < 3) =>
        /\ Done
        /\ DOMAIN result = {"recommendations", "message", "userProfile"}
        /\ result.recommendations = <<>>
        /\ result.message = "Add at least 3 books to get personalized recommendations"
        /\ result.userProfile = [totalBooks |-> Len(userBooks)]
        /\ ModelCalls = {}
        /\ CatalogCalls = {}
        /\ clientOutcome = "none"
  /\ (loaded = "rows" /\ Len(userBooks) >= 3) =>
        /\ DOMAIN userProfile = FullProfileFields
        /\ userProfile.totalBooks = Len(userBooks)
  /\ ModelCalls # {} =>
        /\ loaded = "rows" /\ Len(userBooks) >= 3
        /\ \A i \in ModelCalls : calls[i].arg.totalBooks = Len(userBooks)

C1_Witness ==
  /\ Done /\ loaded = "rows" /\ Len(userBooks) = 2
  /\ result.message = MsgInsufficient

\* C2: getBookRecommendations never ends by throwing, whatever initialization,
\* the two model calls and parsing do.
C2_ClientNeverRaises == clientOutcome # "threw"

\* C3: the fallback model is requested exactly when a primary attempt has
\* failed, after the primary request and with the same prompt; when both
\* attempts failed getBookRecommendations has returned [].
C3_FallbackEscalation ==
  LET fallbackCalls == {i \in 1..Len(calls) : calls[i].op = "fallback"}
      primaryCalls == {i \in 1..Len(calls) : calls[i].op = "primary"}
      primaryFailed == Len(attempts) >= 1 /\ ~attempts[1].ok
  IN  /\ fallbackCalls # {} <=> primaryFailed
      /\ Len(attempts) >= 1 => attempts[1].tier = "primary"
      /\ \A j \in fallbackCalls :
           \E i \in primaryCalls : i < j /\ calls[i].arg = calls[j].arg
      /\ (Len(attempts) >= 1 /\ attempts[1].ok) =>
           /\ Len(attempts) = 1
           /\ clientOutcome = "returned" /\ geminiRecs # <<>>
      /\ (Len(attempts) = 2 /\ ~attempts[1].ok /\ ~attempts[2].ok) =>
           /\ clientOutcome = "returned" /\ geminiRecs = <<>>

C3_Witness ==
  /\ Len(attempts) = 2 /\ ~attempts[1].ok /\ attempts[2].ok
  /\ Len(geminiRecs) = 2
  /\ \E j \in 1..Len(calls) : calls[j].op = "fallback" /\ calls[j].arg = prompt

\* C4: a run never ends by throwing; every ended run has returned a result
\* object with a recommendations list, and a failed library read gives
\* recommendations = [], source = "Error" and a non-empty message.
C4_NoExceptionExit ==
  /\ pc # "thrown"
  /\ Done => "recommendations" \in DOMAIN result
  /\ loaded = "rejected" =>
        /\ Done
        /\ result.recommendations = <<>>
        /\ HasSource("Error")
        /\ "message" \in DOMAIN result /\ result.message # ""

C4_Witness == Done /\ loaded = "rejected" /\ HasSource("Error") /\ logged \in DbErrors

\* C5: every returned result whose recommendations list is empty carries a
\* non-empty message.
C5_EmptyHasMessage ==
  (Done /\ result.recommendations = <<>>) =>
     ("message" \in DOMAIN result /\ result.message # "")

\* C6: in the Error result no field carries the text of the exception that
\* was logged.
C6_ErrorResultGeneric ==
  (Done /\ HasSource("Error")) =>
     \A f \in DOMAIN result \ {"recommendations"} : result[f] # logged

\* C7 (as stated): every returned result has a recommendations list and a
\* userProfile that contains totalBooks.
C7_SameEnvelope ==
  Done => /\ "recommendations" \in DOMAIN result
          /\ "userProfile" \in DOMAIN result
          /\ "totalBooks" \in DOMAIN result.userProfile

\* C7 (amended): every returned result has a recommendations list; every
\* result except the Error one has a userProfile whose totalBooks is the
\* number of library rows; the Error result has no userProfile.
C7_EnvelopeExceptError ==
  Done => /\ "recommendations" \in DOMAIN result
          /\ ~HasSource("Error") =>
                /\ "userProfile" \in DOMAIN result
                /\ "totalBooks" \in DOMAIN result.userProfile
                /\ result.userProfile.totalBooks = Len(userBooks)
          /\ HasSource("Error") => "userProfile" \notin DOMAIN result

C7_Witness ==
  /\ Done /\ HasSource("Failed")
  /\ result.userProfile.totalBooks = 3

\* C8: in an AI-powered result every recommendation has the reason and the
\* genre of the candidate whose title its book record was looked up with.
C8_ReasonOfLookedUpTitle ==
  (Done /\ HasSource("AI-powered")) =>
     \A i \in Matched :
        /\ result.recommendations[PlaceOf(i)].reason = geminiRecs[i].reason
        /\ result.recommendations[PlaceOf(i)].genre = geminiRecs[i].genre

\* C9: searchBooks never raises; a timeout, a 401, a 429, any other network
\* error and an answer without items all give [].
C9_SearchBooksSoftFailure ==
  /\ ~lastSearch.threw
  /\ \A i \in 1..Len(lookups) : ~lookups[i].threw
  /\ lastSearch.kind \in {"timeout", "401", "429", "network", "noitems"} =>
        lastSearch.value = <<>>
  /\ (lastSearch.kind = "items" /\ lastSearch.count = 0) => lastSearch.value = <<>>
  /\ (lastSearch.kind = "items" /\ lastSearch.count > 0) =>
        Len(lastSearch.value) = lastSearch.count

C9_Witness ==
  /\ Done /\ lastSearch.kind = "429" /\ lastSearch.value = <<>>
  /\ HasSource("Failed")

\* C10: enrichRecommendations returns the first match of every title whose
\* lookup returned a result, in the order of the titles, and nothing for the
\* other titles; so never more records than titles.
C10_EnrichDropSemantics ==
  (Done /\ HasSource("AI-powered")) =>
     /\ Len(enriched) = Cardinality(Matched)
     /\ Len(enriched) <= Len(geminiRecs)
     /\ \A i \in Matched : enriched[PlaceOf(i)] = lookups[i].book
     /\ \A i \in 1..Len(lookups) : (lookups[i].hits > 0) <=> (lookups[i].state = "book")

C10_Witness ==
  /\ Done /\ HasSource("AI-powered")
  /\ Len(geminiRecs) = 3
  /\ lookups[1].hits > 0 /\ lookups[2].hits = 0 /\ lookups[3].hits > 0
  /\ Len(enriched) = 2

\* C11: when the model client has returned no candidates, exactly one catalog
\* search is issued, with the query "G books highly rated" for the top genre G
\* of the library ("bestseller books highly rated" when the library has no
\* genre) and a cap of 10; when the catalog answers with k >= 1 items the
\* result has source "Genre-based" and exactly k recommendations, each with
\* the reason "Popular G book that readers love".
C11_GenreFallback ==
  LET noCandidates == clientOutcome = "returned" /\ geminiRecs = <<>>
      G == userProfile.topGenres[1]
      k == lastSearch.count
  IN  /\ (noCandidates /\ pc \in {"genre", "done"}) =>
            /\ Cardinality(CatalogCalls) = 1
            /\ \A i \in CatalogCalls :
                 /\ calls[i].arg.maxResults = 10
                 /\ userProfile.topGenres # <<>> =>
                       calls[i].arg.query = <<G, " books highly rated">>
                 /\ userProfile.topGenres = <<>> =>
                       calls[i].arg.query = <<"bestseller books highly rated">>
      /\ (noCandidates /\ Done /\ k >= 1) =>
            /\ HasSource("Genre-based")
            /\ Len(result.recommendations) = k
            /\ userProfile.topGenres # <<>> =>
                  \A j \in 1..k :
                     result.recommendations[j].reason =
                        <<"Popular ", G, " book that readers love">>

C11_Witness ==
  /\ Done /\ HasSource("Genre-based")
  /\ clientOutcome = "returned" /\ Len(attempts) = 2 /\ geminiRecs = <<>>
  /\ userProfile.topGenres[1] = "Fantasy"
  /\ lastSearch.count = 2 /\ Len(result.recommendations) = 2
  /\ calls[Len(calls)].arg = [query |-> <<"Fantasy", " books highly rated">>, maxResults |-> 10]

\* the same path for a library without any category
C11_NoGenreReached ==
  /\ Done /\ HasSource("Genre-based") /\ userProfile.topGenres = <<>>
  /\ calls[Len(calls)].arg.query = <<"bestseller books highly rated">>

\* C12: when both model attempts have failed and the genre search has given
\* [], the result has recommendations = [], source "Failed" and a non-empty
\* message; a "Failed" result is only ever returned after the model client
\* has ended without candidates and the one genre search has come back empty.
C12_TotalFailure ==
  LET bothFailed == Len(attempts) = 2 /\ ~attempts[1].ok /\ ~attempts[2].ok
      genreCalls == {i \in CatalogCalls : calls[i].arg.maxResults = 10}
  IN  /\ (Done /\ bothFailed /\ lastSearch.kind # "none" /\ lastSearch.value = <<>>) =>
            /\ result.recommendations = <<>>
            /\ HasSource("Failed")
            /\ "message" \in DOMAIN result /\ result.message # ""
      /\ HasSource("Failed") =>
            /\ Done
            /\ result.recommendations = <<>>
            /\ geminiRecs = <<>>
            /\ clientOutcome = "threw" \/ (clientOutcome = "returned" /\ bothFailed)
            /\ Cardinality(genreCalls) = 1 /\ CatalogCalls = genreCalls
            /\ lastSearch.kind # "none" /\ lastSearch.value = <<>>

C12_Witness ==
  /\ Done /\ HasSource("Failed")
  /\ Len(attempts) = 2 /\ ~attempts[1].ok /\ ~attempts[2].ok
  /\ lastSearch.kind = "noitems"
  /\ result.message = "Unable to generate recommendations at this time. Please try again later."

\* C13: when the model client has returned c >= 1 candidates (which needs a
\* library of 3 rows or more) the result has source "AI-powered", at most c
\* recommendations, and every recommendation has a non-empty reason.
C13_AIPoweredPath ==
  LET c == Len(geminiRecs)
  IN  (Done /\ clientOutcome = "returned" /\ c >= 1) =>
         /\ Len(userBooks) >= 3
         /\ HasSource("AI-powered")
         /\ Len(result.recommendations) <= c
         /\ \A j \in 1..Len(result.recommendations) :
              result.recommendations[j].reason # ""

C13_Witness ==
  /\ Done /\ HasSource("AI-powered")
  /\ clientOutcome = "returned" /\ Len(geminiRecs) = 2
  /\ Len(result.recommendations) = 1
  /\ result.recommendations[1].reason = geminiRecs[1].reason

\* C19: a primary answer that is not a JSON array, or none of whose elements
\* has title, author and reason, is a failed primary attempt: the fallback
\* model is requested; when the fallback answer fails to parse as well,
\* getBookRecommendations returns [].
C19_ParseFailureEscalates ==
  LET parseFailed(a) == a.why \in {"not-array", "no-valid"}
      fallbackCalls == {i \in 1..Len(calls) : calls[i].op = "fallback"}
  IN  /\ \A k \in 1..Len(attempts) : parseFailed(attempts[k]) => ~attempts[k].ok
      /\ (Len(attempts) >= 1 /\ parseFailed(attempts[1])) =>
            /\ attempts[1].tier = "primary"
            /\ Cardinality(fallbackCalls) = 1
      /\ (Len(attempts) = 2 /\ parseFailed(attempts[2])) =>
            /\ attempts[2].tier = "fallback"
            /\ clientOutcome = "returned"
            /\ geminiRecs = <<>>

C19_Witness ==
  /\ Len(attempts) = 2
  /\ attempts[1].why = "no-valid" /\ attempts[2].why = "not-array"
  /\ clientOutcome = "returned" /\ geminiRecs = <<>>
  /\ pc = "client_resolved"

\* C14: a returned result never has more than 10 recommendations, however
\* many elements the model's array has.
C14_AtMostTen ==
  (Done /\ "recommendations" \in DOMAIN result) => Len(result.recommendations) <= 10

\* the run that refutes it: 11 candidates, every title found in the catalog
C14_ElevenReturned ==
  /\ Done /\ HasSource("AI-powered")
  /\ Len(geminiRecs) = 11
  /\ Len(result.recommendations) = 11

C16_TieReached ==
  /\ pc = "primary" /\ Len(userBooks) = 4
  /\ \A i \in 1..4 : userBooks[i].categories = <<(<<"A", "B", "A", "B">>)[i]>>
  /\ userProfile.topGenres = <<"A", "B">>

C16_CutReached ==
  /\ pc = "primary"
  /\ userBooks[1].categories = <<"D", "A">> /\ userBooks[2].categories = <<"B">>
  /\ userBooks[3].categories = <<"C">>
  /\ Len(userBooks) = 3
  /\ userProfile.topGenres = <<"D", "A", "B">>

\* what the text under parse was made of, and how the call ended
ParseEnded == parsePc \in {"returned", "threw"}
IsArrayCore == coreText \in ArrayTexts
CoreItems ==
  CHOOSE items \in SeqsUpTo(ArrayItems, MaxElems) :
    \E pretty \in BOOLEAN : coreText = ArrayText(items, pretty)
SameAsAlone ==
  /\ (parsePc = "returned") = ParseText(coreText).ok
  /\ parsedRecs = ParseText(coreText).recs

C17_WrappingInvariance ==
  (ParseEnded /\ IsArrayCore
     /\ wrapping \in {"padded", "json-fence", "bare-fence", "tight-fence", "prose-before",
                       "prose-after", "prose-around-fence"}) => SameAsAlone

C17_Witness ==
  /\ parsePc = "returned" /\ wrapping = "prose-around-fence"
  /\ coreText = <<"[", NL, SP, "{Dune}", ",", NL, SP, "{Eragon}", NL, "]">>
  /\ Len(parsedRecs) = 2
  /\ parsedRecs[1].title = "Dune" /\ parsedRecs[2].title = "Eragon"

\* the value JSON.parse gives for the whole response
TopLevel == JSONparse(responseText)
HasBracketSpan ==
  \E i, j \in 1..Len(responseText) :
     i < j /\ responseText[i] = "[" /\ responseText[j] = "]"

\* C20 (as stated): a response whose top-level JSON value is not an array is
\* rejected, an object with an array-valued field included.
C20_RejectsNonArray ==
  (ParseEnded /\ TopLevel.ok /\ TopLevel.val.type # "array") => parsePc = "threw"

\* C20 (amended): a response whose top-level JSON value is not an array is
\* rejected when its text has no "[" followed by a "]"; an object whose one
\* field holds an array parses to what that array alone parses to.
C20_RejectsUnlessArrayInside ==
  (ParseEnded /\ TopLevel.ok /\ TopLevel.val.type # "array") =>
     /\ ~HasBracketSpan => parsePc = "threw"
     /\ HasBracketSpan => wrapping = "object-field" /\ IsArrayCore /\ SameAsAlone

C20_Witness ==
  /\ parsePc = "returned" /\ wrapping = "object-field"
  /\ TopLevel.ok /\ TopLevel.val.type = "object"
  /\ coreText = <<"[", "{Dune}", "]">>
  /\ Len(parsedRecs) = 1 /\ parsedRecs[1].title = "Dune"

\* an object without any array inside is rejected
C20_PlainObjectRejected ==
  /\ parsePc = "threw" /\ wrapping = "alone" /\ coreText = <<"{Dune}">>
  /\ recommendations.type = "elem"

\* C18: when every concurrent call of addToUserLibrary for the same user and
\* googleBooksId has ended, none has ended with an error, exactly one has
\* returned isNew = true, and there is exactly one books row and exactly
\* one user_libraries row for the pair.
C18_UpsertOnce ==
  (\A c \in DOMAIN callers : callers[c].pc \in {"returned", "threw"}) =>
     /\ \A c \in DOMAIN callers : callers[c].pc = "returned"
     /\ callers # <<>> => Cardinality({c \in DOMAIN callers : callers[c].isNew}) = 1
     /\ callers # <<>> =>
           Cardinality({b \in booksTable : b.google_books_id = TheGoogleBooksId}) = 1
     /\ callers # <<>> =>
           Cardinality({r \in userLibraries : r.user_id = TheUser}) = 1

\* the two ways a call ends with an error
C18_BookInsertRejected ==
  \E c \in DOMAIN callers : callers[c].pc = "threw" /\ callers[c].error = ErrBooksUnique
C18_EntryInsertRejected ==
  \E c \in DOMAIN callers : callers[c].pc = "threw" /\ callers[c].error = ErrLibraryUnique

\* C21: an array text with prose before it or after it parses to what the
\* array text alone parses to, also when the prose has "[" and "]" in it.
C21_BracketProse ==
  (ParseEnded /\ IsArrayCore
     /\ wrapping \in {"bracket-prose-before", "bracket-prose-after"}) => SameAsAlone

\* the run that refutes it: the match runs from the "[" of the prose to the
\* last "]" of the array, and JSON.parse throws on it
C21_ProseBracketSwallowed ==
  /\ parsePc = "threw" /\ wrapping = "bracket-prose-before"
  /\ coreText = <<"[", "{Dune}", "]">>
  /\ cleanedText = <<"[", "books", "]", ":", NL, "[", "{Dune}", "]">>
  /\ ParseText(coreText).ok

\* C22: in an AI-powered result the recommendation at index i is the record
\* at index i of the enriched list with the reason and the genre of the
\* candidate at index i of the model's list, whichever lookups were dropped.
C22_PositionalMerge ==
  (Done /\ HasSource("AI-powered")) =>
     /\ Len(result.recommendations) = Len(enriched)
     /\ \A i \in 1..Len(enriched) :
          /\ result.recommendations[i].googleBooksId = enriched[i].googleBooksId
          /\ result.recommendations[i].title = enriched[i].title
          /\ result.recommendations[i].reason = geminiRecs[i].reason
          /\ result.recommendations[i].genre = geminiRecs[i].genre

C22_Witness ==
  /\ Done /\ HasSource("AI-powered")
  /\ Len(geminiRecs) = 2 /\ geminiRecs[1].title = "Dune" /\ geminiRecs[2].title = "Eragon"
  /\ lookups[1].hits = 0 /\ lookups[2].hits > 0
  /\ Len(result.recommendations) = 1
  /\ result.recommendations[1].reason = "You liked Foundation"
  /\ result.recommendations[1].genre = "SciFi"

\* C23: enrichRecommendations issues the request of every title before any of
\* them has completed, returns only when all of them have completed, and what
\* it returns is the first match of each matched title in the order of the
\* titles, whatever the order in which the requests completed.
C23_FanOutFanIn ==
  /\ pc \in {"enrich", "enrich_returned"} =>
       /\ Len(lookups) = Len(geminiRecs)
       /\ calls = [i \in 1..Len(geminiRecs) |->
                     [op |-> "searchBooks",
                      arg |-> [query |-> <<geminiRecs[i].title>>, maxResults |-> 1]]]
  /\ pc = "enrich_entry" => (completed = <<>> /\ calls = <<>>)
  /\ pc = "enrich" => enriched = <<>>
  /\ pc = "enrich_returned" =>
       /\ \A i \in 1..Len(lookups) : lookups[i].state # "pending"
       /\ Len(completed) = Len(geminiRecs)
       /\ Len(enriched) = Cardinality(Matched)
       /\ \A i \in Matched : enriched[PlaceOf(i)] = lookups[i].book

\* the last title's request completed first and the first title's last; both
\* matched, on different books, and the first title's book comes first
C23_Witness ==
  /\ pc = "enrich_returned"
  /\ completed = <<3, 2, 1>>
  /\ lookups[1].state = "book" /\ lookups[3].state = "book" /\ lookups[2].state = "null"
  /\ lookups[1].book # lookups[3].book
  /\ enriched = <<lookups[1].book, lookups[3].book>>

\* C24: the genre search is issued only after the model client threw or
\* returned no candidate; after it returned at least one candidate the run is
\* on the enrichment path, issues no genre search, and a result it returns
\* has the source "AI-powered", never "Genre-based" or "Failed".
GenreCalls == {i \in CatalogCalls : calls[i].arg.maxResults = FallbackMaxResults}

C24_PathSelection ==
  /\ (GenreCalls # {} \/ pc = "genre") =>
        \/ clientOutcome = "threw"
        \/ clientOutcome = "returned" /\ Len(geminiRecs) = 0
  /\ (clientOutcome = "returned" /\ Len(geminiRecs) >= 1) =>
        /\ pc \in {"client_resolved", "enrich", "done"}
        /\ GenreCalls = {}
        /\ lastSearch = NoSearch
        /\ Done => (HasSource("AI-powered") /\ ~HasSource("Genre-based") /\ ~HasSource("Failed"))

\* one candidate, its lookup found nothing: still AI-powered, no genre search
C24_Witness ==
  /\ Done /\ clientOutcome = "returned" /\ Len(geminiRecs) = 1
  /\ lookups[1].state = "null" /\ enriched = <<>>
  /\ HasSource("AI-powered") /\ result.recommendations = <<>>
  /\ \A i \in CatalogCalls : calls[i].arg.maxResults = EnrichMaxResults

\* the library row of a recentBooks entry, and the rows that are not among them
RecentRow(i) == CHOOSE r \in libraryTable : r.book.title = userProfile.recentBooks[i].title
NotRecent ==
  {r \in libraryTable :
     \A i \in 1..Len(userProfile.recentBooks) : userProfile.recentBooks[i].title # r.book.title}

\* C25 as stated: recentBooks has at most 3 entries, the most recently added
\* rows, most recently added first, whatever status updates were made.
C25_MostRecentlyAdded ==
  userProfile # <<>> =>
     LET n == Len(userProfile.recentBooks)
     IN  /\ n <= 3
         /\ \A i, j \in 1..n : i < j => RecentRow(i).added_at >= RecentRow(j).added_at
         /\ \A i \in 1..n : \A r \in NotRecent : RecentRow(i).added_at >= r.added_at

\* C25 amended: recentBooks has at most 3 entries, the first rows in the
\* order of getUserBooks: most recently updated first, and among rows updated
\* at the same time most recently added first.
C25_MostRecentlyUpdated ==
  userProfile # <<>> =>
     LET n == Len(userProfile.recentBooks)
     IN  /\ n <= 3
         /\ n = IF Cardinality(libraryTable) < 3 THEN Cardinality(libraryTable) ELSE 3
         /\ \A i, j \in 1..n :
              i < j => \/ RecentRow(i).updated_at > RecentRow(j).updated_at
                       \/ /\ RecentRow(i).updated_at = RecentRow(j).updated_at
                          /\ RecentRow(i).added_at >= RecentRow(j).added_at
         /\ \A i \in 1..n : \A r \in NotRecent :
              \/ RecentRow(i).updated_at > r.updated_at
              \/ /\ RecentRow(i).updated_at = r.updated_at
                 /\ RecentRow(i).added_at >= r.added_at

\* four books added one after the other, then the status of the oldest is
\* updated: it is first in recentBooks and the second oldest is left out
C25_Witness ==
  /\ userProfile # <<>>
  /\ Cardinality(libraryTable) = 4
  /\ \A r1, r2 \in libraryTable : r1 # r2 => r1.added_at # r2.added_at
  /\ RecentRow(1).added_at < RecentRow(2).added_at
  /\ RecentRow(2).added_at > RecentRow(3).added_at
  /\ RecentRow(1).updated_at > RecentRow(1).added_at
  /\ \E r \in NotRecent : r.added_at > RecentRow(1).added_at

\* the rows on which an author appears
RowsWith(a) == {i \in 1..Len(userBooks) : \E k \in 1..Len(userBooks[i].authors) :
                                             userBooks[i].authors[k] = a}

\* C26: favoriteAuthors holds exactly the authors that appear on more than
\* one row of the library, each once, in the order of the first row on which
\* they appear.
C26_FavoriteAuthors ==
  (loaded = "rows" /\ userProfile # <<>>) =>
     LET fav == userProfile.favoriteAuthors
         FirstRow(a) == CHOOSE i \in RowsWith(a) : \A j \in RowsWith(a) : i <= j
     IN  /\ {fav[i] : i \in 1..Len(fav)} =
              {a \in UNION {{userBooks[i].authors[k] : k \in 1..Len(userBooks[i].authors)} :
                              i \in 1..Len(userBooks)} : Cardinality(RowsWith(a)) > 1}
         /\ \A i, j \in 1..Len(fav) : i # j => fav[i] # fav[j]
         /\ \A i, j \in 1..Len(fav) : i < j => FirstRow(fav[i]) <= FirstRow(fav[j])

\* the run that refutes it: one row names Ann twice, no other row names her
C26_SameRowCountedTwice ==
  /\ loaded = "rows" /\ Len(userBooks) = 3
  /\ userBooks[1].authors = <<"Ann", "Ann">>
  /\ userBooks[2].authors = <<"Bob">> /\ userBooks[3].authors = <<>>
  /\ userProfile.favoriteAuthors = <<"Ann">>

RECURSIVE PagesFrom(_, _)
PagesFrom(rows, i) ==
  IF i > Len(rows) THEN 0
  ELSE (IF rows[i].page_count = Null THEN 0 ELSE rows[i].page_count) + PagesFrom(rows, i + 1)

\* C27: avgPageCount is the sum of the page counts, a row without one adding
\* 0, divided by the number of all rows and rounded to the nearest integer
\* (a half rounds up).
C27_AvgPageCount ==
  (loaded = "rows" /\ userProfile # <<>>) =>
     LET n == Len(userBooks)
         total == PagesFrom(userBooks, 1)
         avg == userProfile.avgPageCount
     IN  /\ 2 * n * avg - n <= 2 * total
         /\ 2 * total < 2 * n * avg + n

\* 301 pages on one row and two rows without a page count: 301 / 3 is 100
C27_Witness ==
  /\ loaded = "rows" /\ Len(userBooks) = 3
  /\ userBooks[1].page_count = 301
  /\ userBooks[2].page_count = Null /\ userBooks[3].page_count = Null
  /\ userProfile.avgPageCount = 100

\* four rows with 2 pages in all: 0.5 rounds up to 1
C27_HalfRoundsUp ==
  /\ loaded = "rows" /\ Len(userBooks) = 4
  /\ PagesFrom(userBooks, 1) = 2
  /\ userProfile.avgPageCount = 1

\* the requests of one kind this run has issued, the attempts of one tier
CallsOf(op) == {i \in 1..Len(calls) : calls[i].op = op}
AttemptsOf(tier) == {i \in 1..Len(attempts) : attempts[i].tier = tier}

\* C28: a run reads the library at most once, invokes the primary model at
\* most once and the secondary model at most once (the secondary only after
\* the one failed primary attempt), issues one enrichment request per
\* candidate and no other catalog request on that path, and issues the genre
\* search at most once: no request is issued a second time after it failed.
C28_NoRetries ==
  /\ Cardinality(CallsOf("getUserBooks")) <= 1
  /\ Cardinality(CallsOf("primary")) <= 1
  /\ Cardinality(CallsOf("fallback")) <= 1
  /\ Cardinality(AttemptsOf("primary")) <= Cardinality(CallsOf("primary"))
  /\ Cardinality(AttemptsOf("fallback")) <= Cardinality(CallsOf("fallback"))
  /\ CallsOf("fallback") # {} =>
        \E i \in AttemptsOf("primary") : ~attempts[i].ok
  /\ Cardinality(GenreCalls) <= 1
  /\ Cardinality(CatalogCalls \ GenreCalls) = Len(lookups)
  /\ Len(lookups) <= Len(geminiRecs)
  /\ lookups # <<>> => GenreCalls = {}
  /\ Len(calls) = Cardinality(CallsOf("getUserBooks")) + Cardinality(ModelCalls)
                    + Cardinality(CatalogCalls)

\* every external call of the run failed, and each was made once
C28_Witness ==
  /\ Done /\ HasSource("Failed")
  /\ Len(attempts) = 2 /\ ~attempts[1].ok /\ ~attempts[2].ok
  /\ lastSearch.kind = "timeout"
  /\ Len(calls) = 4
  /\ calls[1].op = "getUserBooks" /\ calls[2].op = "primary"
  /\ calls[3].op = "fallback" /\ calls[4].op = "searchBooks"

\* the place of a pipeline state in the order of the pipeline
Rank(p) ==
  CASE p = "idle" -> 0
    [] p = "load" -> 1
    [] p = "primary" -> 2
    [] p = "fallback" -> 3
    [] p \in {"client_resolved", "client_rejected"} -> 4
    [] p \in {"enrich", "genre"} -> 5
    [] p \in {"done", "thrown"} -> 6
    [] OTHER -> 7

Pending == Cardinality({i \in 1..Len(lookups) : lookups[i].state = "pending"})

\* the five terminal states, told apart by what was returned
TerminalKinds ==
  {k \in {"insufficient", "AI-powered", "Genre-based", "Failed", "Error"} :
     IF k = "insufficient"
     THEN "source" \notin DOMAIN result /\ "message" \in DOMAIN result
          /\ result.message = MsgInsufficient
     ELSE HasSource(k)}

Terminal == Done /\ result # <<>> /\ Cardinality(TerminalKinds) = 1

\* C29: when every awaited call settles, a run that has started reaches one
\* of the five terminal states, and exactly one; on the way every step moves
\* forward in the pipeline (or completes one more lookup) and none goes back,
\* and the terminal state is left only for the next request.
C29_Terminates ==
  /\ [][\/ Rank(pc') > Rank(pc)
        \/ pc' = pc /\ pc = "enrich" /\ Pending' < Pending
        \/ pc = "done" /\ pc' = "idle"]_vars
  /\ (pc = "load") ~> Terminal
  /\ [](Done => Terminal)

\* a run that went through both model tiers and the genre search and ended
\* in the Genre-based state
C29_Witness ==
  /\ Terminal /\ TerminalKinds = {"Genre-based"}
  /\ Len(attempts) = 2 /\ clientOutcome = "returned"

AllSet(h) == h.genAI /\ h.primaryModel /\ h.fallbackModel

\* C30: every generateContent invocation is made with the client and both
\* model handles set; a call that found a handle unset ran initializeGemini
\* before anything else, a call that found all three set did not, and a call
\* whose initialization threw invoked no model.
C30_LazyInit ==
  /\ \A k \in 1..Len(invoked) : AllSet(invoked[k].handles)
  /\ \A c \in DOMAIN clientCalls :
       clientCalls[c].pc # "idle" =>
          /\ clientCalls[c].initRan <=> ~AllSet(clientCalls[c].found)
          /\ clientCalls[c].pc = "threw" => \A k \in 1..Len(invoked) : invoked[k].caller # c
          /\ clientCalls[c].pc # "threw" => \E k \in 1..Len(invoked) :
                                               invoked[k].caller = c /\ invoked[k].tier = "primary"

\* the first call's initialization failed after the client was created; the
\* second call found the client set and the models unset, initialized, and
\* invoked both models
C30_Witness ==
  /\ clientCalls[1].pc = "threw"
  /\ clientCalls[1].found = [genAI |-> FALSE, primaryModel |-> FALSE, fallbackModel |-> FALSE]
  /\ clientCalls[2].found = [genAI |-> TRUE, primaryModel |-> FALSE, fallbackModel |-> FALSE]
  /\ clientCalls[2].initRan /\ clientCalls[2].pc = "returned"
  /\ clientCalls[2].fn = "getBookDescription"
  /\ Len(invoked) = 2 /\ invoked[2].tier = "fallback" /\ AllSet(invoked[2].handles)

====
